---------------------------- MODULE Spec2Model ----------------------------
(***************************************************************************)
(* Model of tod_control_testing_v21_enhanced.py: the retrying LLM call     *)
(* (make_llm_call_with_retry), the response parser                         *)
(* (extract_json_from_response), the nine assessment operations,           *)
(* the record loop (process_controls) and the run (main,                   *)
(* initialize_client).                                                     *)
(*                                                                         *)
(* A Python str is a sequence of chunks.  A chunk [q, s] is an atomic      *)
(* piece of text s; q = TRUE means the piece stands in double quotes in    *)
(* the text (a JSON string literal).  The empty str is << >>.              *)
(***************************************************************************)
EXTENDS Integers, Sequences, FiniteSets, TLC

\* ------------------------------------------------------------------ bounds
\* the retry configurations explored: MAX_RETRIES, RETRY_DELAY, MAX_RETRY_DELAY
MaxRetriesBound == 3
MaxBaseDelay == 2
MaxDelayCap == 3
\* a run of main: rows of the input file, MAX_RETRIES, requests that go wrong
MaxRecords == 2
\* rows of an input file that has more than the required columns
MaxExtraRecords == 1
MaxRunRetries == 2
MaxFaults == 2
\* a run that is repeated with the same stub: requests that go wrong, and
\* the seconds that pass between the two runs
MaxStubFaults == 1
MaxGap == 2
\* the parser alone: pieces of a response text
MaxTextLen == 6

\* ------------------------------------------------------------------- text
T(s) == << [q |-> FALSE, s |-> s] >>
Q(s) == << [q |-> TRUE, s |-> s] >>

Whitespace == {" ", "\n"}

IsWs(c) == ~c.q /\ c.s \in Whitespace

RECURSIVE LStrip(_)
LStrip(t) == IF t # << >> /\ IsWs(Head(t)) THEN LStrip(Tail(t)) ELSE t

RECURSIVE RStrip(_)
RStrip(t) ==
    IF t # << >> /\ IsWs(t[Len(t)]) THEN RStrip(SubSeq(t, 1, Len(t) - 1)) ELSE t

\* str.strip()
Strip(t) == RStrip(LStrip(t))

\* str.lower() on one chunk: the marker word is the only text whose case matters
Lower(s) == IF s \in {"json", "JSON", "Json"} THEN "json" ELSE s

RECURSIVE Join(_, _)
\* sep.join(parts)
Join(sep, parts) ==
    IF parts = << >> THEN << >>
    ELSE IF Len(parts) = 1 THEN parts[1]
    ELSE parts[1] \o sep \o Join(sep, Tail(parts))

\* ------------------------------------------------------------ JSON values
(***************************************************************************)
(* A value json.loads returns: [k, s, items].  k is the Python type:       *)
(* "str" (s its content), "num" (s its numeral), "null" (None), "true",    *)
(* "false", "obj" (a dict; items its <<key, value>> pairs in insertion     *)
(* order) or "list" (items its elements).  PyNone is the None that         *)
(* extract_json_from_response returns on a parse error.                    *)
(***************************************************************************)
JStr(s) == [k |-> "str", s |-> s, items |-> << >>]
JNum(s) == [k |-> "num", s |-> s, items |-> << >>]
JLit(s) == [k |-> s, s |-> "", items |-> << >>]
JObj(pairs) == [k |-> "obj", s |-> "", items |-> pairs]
JList(elems) == [k |-> "list", s |-> "", items |-> elems]
PyNone == [k |-> "None", s |-> "", items |-> << >>]

Numerals == {"0", "1"}
Literals == {"null", "true", "false"}

IsTok(c, s) == ~c.q /\ c.s = s

\* bool(value), as `if not data` evaluates it
Truthy(v) ==
    CASE v.k \in {"None", "null", "false"} -> FALSE
      [] v.k = "true" -> TRUE
      [] v.k = "num" -> v.s # "0"
      [] v.k = "str" -> v.s # ""
      [] OTHER -> v.items # << >>

HasKey(pairs, key) == \E i \in 1..Len(pairs) : pairs[i][1] = key

\* d[key] = val on an insertion-ordered dict: a repeated key keeps its place
PutKey(pairs, key, val) ==
    IF HasKey(pairs, key)
    THEN [i \in 1..Len(pairs) |->
            IF pairs[i][1] = key THEN <<key, val>> ELSE pairs[i]]
    ELSE Append(pairs, <<key, val>>)

\* dict.get(key, default)
Get(obj, key, default) ==
    IF HasKey(obj.items, key)
    THEN (CHOOSE p \in {obj.items[i] : i \in 1..Len(obj.items)} : p[1] = key)[2]
    ELSE default

\* the element of a one-element set; The({f(v) : v \in {e}}) is f applied to the
\* value of e, with e evaluated once whatever f does with it
The(S) == CHOOSE r \in S : TRUE

\* a digit of the text
IsDigit(c) == ~c.q /\ c.s \in Numerals

RECURSIVE DigitRun(_)
\* the number of digits at the head of the text
DigitRun(t) == IF t # << >> /\ IsDigit(Head(t)) THEN 1 + DigitRun(Tail(t)) ELSE 0

\* json's number scanner, (0|[1-9]\d*), on a text that starts with a digit:
\* the number of pieces it takes; a leading 0 is a number on its own
NumberEnd(t) == IF Head(t).s = "0" THEN 1 ELSE DigitRun(t)

RECURSIVE Digits(_)
\* the numeral a run of digits spells
Digits(t) == IF t = << >> THEN "" ELSE Head(t).s \o Digits(Tail(t))

\* the runs of digits of a text
DigitTexts ==
    UNION {[1..k -> {[q |-> FALSE, s |-> d] : d \in Numerals}] : k \in 1..MaxTextLen}

\* str(n) of an int: its digits, one piece each
NumeralText(s) ==
    IF s \in Numerals THEN T(s) ELSE CHOOSE t \in DigitTexts : Digits(t) = s

\* repr(s) of a str, as str() shows it inside a list or a dict: in single quotes
Repr(s) == T("'" \o s \o "'")

ParseFail == [ok |-> FALSE, val |-> PyNone, rest |-> << >>]
ParseOk(v, rest) == [ok |-> TRUE, val |-> v, rest |-> rest]

RECURSIVE ParseValue(_), ParseMembers(_, _), ParseElements(_, _)
\* one JSON value at the head of the text (white space before it skipped);
\* rest is the text after the value
ParseValue(text) ==
    The({(IF t = << >> THEN ParseFail
          ELSE IF Head(t).q THEN ParseOk(JStr(Head(t).s), Tail(t))
          ELSE IF Head(t).s \in Numerals
               THEN ParseOk(JNum(Digits(SubSeq(t, 1, NumberEnd(t)))),
                            SubSeq(t, NumberEnd(t) + 1, Len(t)))
          ELSE IF Head(t).s \in Literals THEN ParseOk(JLit(Head(t).s), Tail(t))
          ELSE IF Head(t).s = "{"
               THEN The({(IF r # << >> /\ IsTok(Head(r), "}")
                          THEN ParseOk(JObj(<< >>), Tail(r))
                          ELSE ParseMembers(r, << >>))
                         : r \in {LStrip(Tail(t))}})
          ELSE IF Head(t).s = "["
               THEN The({(IF r # << >> /\ IsTok(Head(r), "]")
                          THEN ParseOk(JList(<< >>), Tail(r))
                          ELSE ParseElements(r, << >>))
                         : r \in {LStrip(Tail(t))}})
          ELSE ParseFail)
         : t \in {text}})

\* "key": value pairs up to the closing brace, white space skipped around the
\* key, the colon, the value and the comma
ParseMembers(text, pairs) ==
    The({(IF t = << >> \/ ~Head(t).q THEN ParseFail
          ELSE The({(IF colon = << >> \/ ~IsTok(Head(colon), ":") THEN ParseFail
                     ELSE The({(IF ~v.ok THEN ParseFail
                                ELSE The({(IF rest = << >> THEN ParseFail
                                           ELSE IF IsTok(Head(rest), "}")
                                                THEN ParseOk(JObj(acc), Tail(rest))
                                           ELSE IF IsTok(Head(rest), ",")
                                                THEN ParseMembers(LStrip(Tail(rest)), acc)
                                           ELSE ParseFail)
                                          : rest \in {LStrip(v.rest)},
                                            acc \in {PutKey(pairs, Head(t).s, v.val)}}))
                               : v \in {ParseValue(LStrip(Tail(colon)))}}))
                    : colon \in {LStrip(Tail(t))}}))
         : t \in {text}})

\* list elements up to the closing bracket, white space skipped around the
\* elements and the commas
ParseElements(text, elems) ==
    The({(IF ~v.ok THEN ParseFail
          ELSE The({(IF rest = << >> THEN ParseFail
                     ELSE IF IsTok(Head(rest), "]") THEN ParseOk(JList(acc), Tail(rest))
                     ELSE IF IsTok(Head(rest), ",")
                          THEN ParseElements(LStrip(Tail(rest)), acc)
                     ELSE ParseFail)
                    : rest \in {LStrip(v.rest)}, acc \in {Append(elems, v.val)}}))
         : v \in {ParseValue(text)}})

\* json.loads(text): the value, or PyNone for a JSONDecodeError; white space
\* around the value is skipped, anything else after it is an error
json_loads(t) ==
    The({(IF r.ok /\ LStrip(r.rest) = << >> THEN [ok |-> TRUE, val |-> r.val]
          ELSE [ok |-> FALSE, val |-> PyNone])
         : r \in {ParseValue(LStrip(t))}})

\* BRACE_RE.search(text): the span from the first "{" to the last "}" after it
BraceOpen(t) == {i \in 1..Len(t) : IsTok(t[i], "{")}
BraceClose(t) == {i \in 1..Len(t) : IsTok(t[i], "}")}

Min(S) == CHOOSE x \in S : \A y \in S : x <= y
Max(S) == CHOOSE x \in S : \A y \in S : x >= y

\* BRACE_RE with a lazy quantifier: the span ends at the first "}" after "{"
BRACE_RE_Lazy(t) ==
    IF BraceOpen(t) # {} /\ \E j \in BraceClose(t) : j > Min(BraceOpen(t))
    THEN [match |-> TRUE,
          group |-> SubSeq(t, Min(BraceOpen(t)),
                           Min({j \in BraceClose(t) : j > Min(BraceOpen(t))}))]
    ELSE [match |-> FALSE, group |-> << >>]

BRACE_RE(t) ==
    IF BraceOpen(t) # {} /\ \E j \in BraceClose(t) : j > Min(BraceOpen(t))
    THEN [match |-> TRUE, group |-> SubSeq(t, Min(BraceOpen(t)), Max(BraceClose(t)))]
    ELSE [match |-> FALSE, group |-> << >>]

\* extract_json_from_response(raw_response): the parsed value, or PyNone
extract_json_from_response(raw_response) ==
    The({(The({(json_loads(IF m.match THEN m.group ELSE raw).val)
        : m \in {BRACE_RE(raw)}}))
        : raw \in {IF raw_response # << >> /\ ~Head(raw_response).q
            /\ Lower(Head(raw_response).s) = "json"
         THEN Strip(Tail(raw_response))
         ELSE raw_response}})

\* str(value), as an f-string or a cell shows it
RECURSIVE PyStr(_)
PyStr(v) ==
    CASE v.k = "str" -> (IF v.s = "" THEN << >> ELSE T(v.s))
      [] v.k = "num" -> NumeralText(v.s)
      [] v.k \in {"None", "null"} -> T("None")
      [] v.k = "true" -> T("True")
      [] v.k = "false" -> T("False")
      [] v.k = "list" ->
            T("[") \o Join(T(", "), [i \in 1..Len(v.items) |->
                IF v.items[i].k = "str" THEN Repr(v.items[i].s)
                ELSE PyStr(v.items[i])])
            \o T("]")
      [] OTHER ->
            T("{") \o Join(T(", "), [i \in 1..Len(v.items) |->
                Repr(v.items[i][1]) \o T(": ") \o
                (IF v.items[i][2].k = "str" THEN Repr(v.items[i][2].s)
                 ELSE PyStr(v.items[i][2]))])
            \o T("}")

\* ---------------------------------------------------------- configuration
\* Config.ELEMENTS
ELEMENTS == <<"When", "Why", "Who", "What", "Where", "How">>

\* Config.REQUIRED_COLS
REQUIRED_COLS ==
    <<"Risk", "Risk Description", "Control", "Control Description",
      "Automation", "Detective/ Preventive", "Operation Frequency">>

\* the markers the error handlers look for in str(e).lower()
Markers == {"429", "too many requests", "401", "unauthorized", "404", "not found"}

LLM_ERROR == T("LLM error")
PROCESSING_ERROR == T("Processing error")

\* Config.MAX_RETRIES, Config.RETRY_DELAY, Config.MAX_RETRY_DELAY (seconds)
MAX_RETRIES == 5
RETRY_DELAY == 1
MAX_RETRY_DELAY == 60

ApiKeys == {"YOUR_OPENAI_API_KEY_HERE", "sk-key"}

\* Config as the source sets it
DefaultConfigs ==
    [MAX_RETRIES : {MAX_RETRIES}, RETRY_DELAY : {RETRY_DELAY},
     MAX_RETRY_DELAY : {MAX_RETRY_DELAY}, API_KEY : ApiKeys]

\* the retry configurations the retry loops are explored under: those of the
\* bounds with a base delay that is not above the cap, and the default one
Configs ==
    {c \in [MAX_RETRIES : 1..MaxRetriesBound,
            RETRY_DELAY : 1..MaxBaseDelay,
            MAX_RETRY_DELAY : 1..MaxDelayCap,
            API_KEY : ApiKeys] : c.RETRY_DELAY <= c.MAX_RETRY_DELAY}
    \cup DefaultConfigs

\* the configurations a whole run of main is explored under
RunConfigs ==
    [MAX_RETRIES : 1..MaxRunRetries, RETRY_DELAY : {RETRY_DELAY},
     MAX_RETRY_DELAY : {MAX_RETRY_DELAY}, API_KEY : ApiKeys]

\* 2 ** n
RECURSIVE Pow2(_)
Pow2(n) == IF n = 0 THEN 1 ELSE 2 * Pow2(n - 1)

MinOf(a, b) == IF a <= b THEN a ELSE b

\* ------------------------------------------------------ the LLM service
(***************************************************************************)
(* What one request to the service comes to: a response with text content, *)
(* a response with no content (content is None, or choices is empty), or   *)
(* an exception, of which only the markers its message holds matter.       *)
(***************************************************************************)
TextOutcome(t) == [kind |-> "text", text |-> t, msg |-> {}]
NoContent == [kind |-> "nocontent", text |-> << >>, msg |-> {}]
ErrorOutcome(m) == [kind |-> "error", text |-> << >>, msg |-> m]

ErrorMessages ==
    {{}, {"429"}, {"too many requests"}, {"401"}, {"unauthorized"},
     {"404"}, {"not found"}, {"429", "401"}, {"404", "too many requests"}}

\* Classify with the authentication and not-found tests before the rate test
ClassifyAuthFirst(error_msg) ==
    IF "401" \in error_msg \/ "unauthorized" \in error_msg THEN "auth"
    ELSE IF "404" \in error_msg \/ "not found" \in error_msg THEN "notfound"
    ELSE IF "429" \in error_msg \/ "too many requests" \in error_msg THEN "rate"
    ELSE "other"

\* the branch of the except block that an error message takes
Classify(error_msg) ==
    IF "429" \in error_msg \/ "too many requests" \in error_msg THEN "rate"
    ELSE IF "401" \in error_msg \/ "unauthorized" \in error_msg THEN "auth"
    ELSE IF "404" \in error_msg \/ "not found" \in error_msg THEN "notfound"
    ELSE "other"

\* the exponential wait of line 212 without its min against MAX_RETRY_DELAY
RateLimitWaitUncapped(c, attempt) == c.RETRY_DELAY * Pow2(attempt)

\* min(Config.RETRY_DELAY * (2 ** attempt), Config.MAX_RETRY_DELAY)
RateLimitWait(c, attempt) ==
    MinOf(c.RETRY_DELAY * Pow2(attempt), c.MAX_RETRY_DELAY)

\* Config.RETRY_DELAY * (2 ** attempt)
TransientWait(c, attempt) == c.RETRY_DELAY * Pow2(attempt)

\* Optional[str]
PyText(t) == [none |-> FALSE, text |-> t]
NoText == [none |-> TRUE, text |-> << >>]

\* `not raw_response`
Falsy(raw) == raw.none \/ raw.text = << >>

\* RetryPass that returns at once from a rate-limited last request
RetryPassNoFinalWait(c, attempt, outcome) ==
    IF outcome.kind = "text"
    THEN [next |-> "return", ret |-> PyText(Strip(outcome.text)), wait |-> << >>,
          class |-> "ok"]
    ELSE LET class == Classify(outcome.msg)
             last == attempt + 1 >= c.MAX_RETRIES
         IN CASE class \in {"auth", "notfound"} ->
                    [next |-> "return", ret |-> NoText, wait |-> << >>,
                     class |-> class]
              [] OTHER ->
                    IF ~last
                    THEN [next |-> "retry", ret |-> NoText,
                          wait |-> <<IF class = "rate" THEN RateLimitWait(c, attempt)
                                     ELSE TransientWait(c, attempt)>>,
                          class |-> class]
                    ELSE [next |-> "return", ret |-> NoText, wait |-> << >>,
                          class |-> class]

\* RetryPass that treats an empty response as a transient failure
RetryPassRetriesEmpty(c, attempt, outcome) ==
    IF outcome.kind = "text" /\ Strip(outcome.text) # << >>
    THEN [next |-> "return", ret |-> PyText(Strip(outcome.text)), wait |-> << >>,
          class |-> "ok"]
    ELSE LET class == IF outcome.kind = "text" THEN "ok" ELSE Classify(outcome.msg)
             last == attempt + 1 >= c.MAX_RETRIES
         IN CASE class = "rate" ->
                    [next |-> IF last THEN "return" ELSE "retry", ret |-> NoText,
                     wait |-> <<RateLimitWait(c, attempt)>>, class |-> class]
              [] class \in {"auth", "notfound"} ->
                    [next |-> "return", ret |-> NoText, wait |-> << >>,
                     class |-> class]
              [] OTHER ->
                    IF attempt < c.MAX_RETRIES - 1
                    THEN [next |-> "retry", ret |-> NoText,
                          wait |-> <<TransientWait(c, attempt)>>, class |-> class]
                    ELSE [next |-> "return", ret |-> NoText, wait |-> << >>,
                          class |-> class]

\* RetryPass with a loop of MAX_RETRIES + 1 passes (an off-by-one budget)
RetryPassOneMore(c, attempt, outcome) ==
    IF outcome.kind = "text"
    THEN [next |-> "return", ret |-> PyText(Strip(outcome.text)), wait |-> << >>,
          class |-> "ok"]
    ELSE LET class == Classify(outcome.msg)
             last == attempt + 1 >= c.MAX_RETRIES + 1
         IN CASE class = "rate" ->
                    [next |-> IF last THEN "return" ELSE "retry", ret |-> NoText,
                     wait |-> <<RateLimitWait(c, attempt)>>, class |-> class]
              [] class \in {"auth", "notfound"} ->
                    [next |-> "return", ret |-> NoText, wait |-> << >>,
                     class |-> class]
              [] OTHER ->
                    IF attempt < c.MAX_RETRIES
                    THEN [next |-> "retry", ret |-> NoText,
                          wait |-> <<TransientWait(c, attempt)>>, class |-> class]
                    ELSE [next |-> "return", ret |-> NoText, wait |-> << >>,
                          class |-> class]

\* RetryPass that retries an authentication or not-found error like any other
RetryPassAuthRetried(c, attempt, outcome) ==
    IF outcome.kind = "text"
    THEN [next |-> "return", ret |-> PyText(Strip(outcome.text)), wait |-> << >>,
          class |-> "ok"]
    ELSE LET class == Classify(outcome.msg)
             last == attempt + 1 >= c.MAX_RETRIES
         IN CASE class = "rate" ->
                    [next |-> IF last THEN "return" ELSE "retry", ret |-> NoText,
                     wait |-> <<RateLimitWait(c, attempt)>>, class |-> class]
              [] OTHER ->
                    IF attempt < c.MAX_RETRIES - 1
                    THEN [next |-> "retry", ret |-> NoText,
                          wait |-> <<TransientWait(c, attempt)>>, class |-> class]
                    ELSE [next |-> "return", ret |-> NoText, wait |-> << >>,
                          class |-> class]

(***************************************************************************)
(* One pass of the loop of make_llm_call_with_retry, at loop variable      *)
(* `attempt`, for the outcome of its request: next is "return" (the        *)
(* function returns ret) or "retry" (the loop goes on with attempt + 1);   *)
(* wait is the sleep of this pass, if any.                                 *)
(***************************************************************************)
RetryPass(c, attempt, outcome) ==
    IF outcome.kind = "text"
    THEN [next |-> "return", ret |-> PyText(Strip(outcome.text)), wait |-> << >>,
          class |-> "ok"]
    ELSE LET class == Classify(outcome.msg)
             last == attempt + 1 >= c.MAX_RETRIES
         IN CASE class = "rate" ->
                    [next |-> IF last THEN "return" ELSE "retry", ret |-> NoText,
                     wait |-> <<RateLimitWait(c, attempt)>>, class |-> class]
              [] class \in {"auth", "notfound"} ->
                    [next |-> "return", ret |-> NoText, wait |-> << >>,
                     class |-> class]
              [] OTHER ->
                    IF attempt < c.MAX_RETRIES - 1
                    THEN [next |-> "retry", ret |-> NoText,
                          wait |-> <<TransientWait(c, attempt)>>, class |-> class]
                    ELSE [next |-> "return", ret |-> NoText, wait |-> << >>,
                          class |-> class]

\* ConnectPass that returns the client when the test used up its requests
ConnectPassGivesUp(c, attempt, outcome) ==
    IF outcome.kind = "text" /\ outcome.text # << >>
    THEN [next |-> "return", wait |-> << >>, class |-> "ok"]
    ELSE LET class == Classify(outcome.msg)
             last == attempt + 1 >= c.MAX_RETRIES
         IN CASE class = "rate" ->
                    [next |-> IF last THEN "return" ELSE "retry",
                     wait |-> <<RateLimitWait(c, attempt)>>, class |-> class]
              [] class \in {"auth", "notfound"} ->
                    [next |-> "exit", wait |-> << >>, class |-> class]
              [] OTHER ->
                    IF attempt < c.MAX_RETRIES - 1
                    THEN [next |-> "retry",
                          wait |-> <<TransientWait(c, attempt)>>, class |-> class]
                    ELSE [next |-> "return", wait |-> << >>, class |-> class]

(***************************************************************************)
(* One pass of the connection test loop of initialize_client: next is      *)
(* "return" (the client is returned), "exit" (sys.exit(1)) or "retry".     *)
(* A response without content raises inside the try block and is handled   *)
(* as an error whose message holds no marker.                              *)
(***************************************************************************)
ConnectPass(c, attempt, outcome) ==
    IF outcome.kind = "text" /\ outcome.text # << >>
    THEN [next |-> "return", wait |-> << >>, class |-> "ok"]
    ELSE LET class == Classify(outcome.msg)
             last == attempt + 1 >= c.MAX_RETRIES
         IN CASE class = "rate" ->
                    [next |-> IF last THEN "exit" ELSE "retry",
                     wait |-> <<RateLimitWait(c, attempt)>>, class |-> class]
              [] class \in {"auth", "notfound"} ->
                    [next |-> "exit", wait |-> << >>, class |-> class]
              [] OTHER ->
                    IF attempt < c.MAX_RETRIES - 1
                    THEN [next |-> "retry",
                          wait |-> <<TransientWait(c, attempt)>>, class |-> class]
                    ELSE [next |-> "exit", wait |-> << >>, class |-> class]

\* -------------------------------------------------- assessment operations
(***************************************************************************)
(* Each ask_ function after its call returned raw_response: its tuple of   *)
(* results and the return statement it took ("no_response": the one under  *)
(* `if not raw_response`, "no_data": the one under `if not data`,          *)
(* "parsed": the last one), or raised = TRUE when it raises (an            *)
(* AttributeError on a parsed value that is no dict).                      *)
(***************************************************************************)
Returns(path, vals) == [raised |-> FALSE, path |-> path, out |-> vals]
Raises == [raised |-> TRUE, path |-> "raised", out |-> << >>]

\* "\n".join([f"* {k}: {v}" for k, v in d.items()]); the bullet sign of the
\* source is written * here
Bullets(d) ==
    Join(T("\n"), [i \in 1..Len(d.items) |->
        T("* ") \o T(d.items[i][1]) \o T(": ") \o PyStr(d.items[i][2])])

ask_llm(raw_response) ==
    IF Falsy(raw_response) THEN Returns("no_response", << << >>, LLM_ERROR, << >> >>)
    ELSE The({(IF ~Truthy(data) THEN Returns("no_data", << << >>, LLM_ERROR, << >> >>)
         ELSE IF data.k # "obj" THEN Raises
         ELSE LET present == Get(data, "present", JObj(<< >>))
                  missing == Get(data, "missing", JObj(<< >>))
                  suggestions == Get(data, "suggestions", JObj(<< >>))
              IN IF present.k # "obj" \/ missing.k # "obj" \/ suggestions.k # "obj"
                 THEN Raises
                 ELSE Returns("parsed", <<Bullets(present), Bullets(missing),
                                Bullets(suggestions)>>))
        : data \in {extract_json_from_response(raw_response.text)}})

\* AnswerExplanation that returns markers for JSON that is not an object
AnswerExplanationTolerant(raw_response, key1, key2) ==
    IF Falsy(raw_response) THEN Returns("no_response", <<LLM_ERROR, LLM_ERROR>>)
    ELSE The({(IF ~Truthy(data) \/ data.k # "obj"
         THEN Returns("no_data", <<LLM_ERROR, LLM_ERROR>>)
         ELSE Returns("parsed",
                      <<IF HasKey(data.items, key1)
                        THEN PyStr(Get(data, key1, PyNone)) ELSE LLM_ERROR,
                        IF HasKey(data.items, key2)
                        THEN PyStr(Get(data, key2, PyNone)) ELSE LLM_ERROR>>))
        : data \in {extract_json_from_response(raw_response.text)}})

\* the body shared by the functions that return (answer, explanation)
AnswerExplanation(raw_response, key1, key2) ==
    IF Falsy(raw_response) THEN Returns("no_response", <<LLM_ERROR, LLM_ERROR>>)
    ELSE The({(IF ~Truthy(data) THEN Returns("no_data", <<LLM_ERROR, LLM_ERROR>>)
         ELSE IF data.k # "obj" THEN Raises
         ELSE Returns("parsed",
                      <<IF HasKey(data.items, key1)
                        THEN PyStr(Get(data, key1, PyNone)) ELSE LLM_ERROR,
                        IF HasKey(data.items, key2)
                        THEN PyStr(Get(data, key2, PyNone)) ELSE LLM_ERROR>>))
        : data \in {extract_json_from_response(raw_response.text)}})

\* ask_control_objective that raises when its call returned nothing
ask_control_objective_raises(raw_response) ==
    IF Falsy(raw_response) THEN Raises
    ELSE AnswerExplanation(raw_response, "answer", "explanation")

ask_control_objective(raw_response) ==
    AnswerExplanation(raw_response, "answer", "explanation")

ask_execution_appropriateness(raw_response) ==
    AnswerExplanation(raw_response, "answer", "explanation")

ask_type_adequacy(raw_response) ==
    AnswerExplanation(raw_response, "answer", "explanation")

ask_frequency_appropriateness(raw_response) ==
    AnswerExplanation(raw_response, "answer", "explanation")

\* ask_system_dependency that raises when its call returned nothing
ask_system_dependency_raises(raw_response) ==
    IF Falsy(raw_response) THEN Raises
    ELSE AnswerExplanation(raw_response, "systems", "systems")

ask_system_dependency(raw_response) ==
    IF Falsy(raw_response) THEN Returns("no_response", <<LLM_ERROR, << >> >>)
    ELSE The({(IF ~Truthy(data) THEN Returns("no_data", <<LLM_ERROR, << >> >>)
         ELSE IF data.k # "obj" THEN Raises
         ELSE Returns("parsed",
                      <<IF HasKey(data.items, "systems")
                        THEN PyStr(Get(data, "systems", PyNone)) ELSE LLM_ERROR,
                        << >> >>))
        : data \in {extract_json_from_response(raw_response.text)}})

ask_adaptability(raw_response) ==
    AnswerExplanation(raw_response, "answer", "explanation")

\* ask_overall_rating that reads the key of the judgment operations
ask_overall_rating_reads_answer(raw_response) ==
    AnswerExplanation(raw_response, "answer", "explanation")

ask_overall_rating(raw_response) ==
    AnswerExplanation(raw_response, "rating", "explanation")

\* ask_expected_evidence that hands its response to the parser first
ask_expected_evidence_parses(raw_response) ==
    IF Falsy(raw_response) THEN Returns("no_response", <<LLM_ERROR>>)
    ELSE The({(IF ~Truthy(data) THEN Returns("no_data", <<LLM_ERROR>>)
         ELSE Returns("parsed", <<PyStr(data)>>))
        : data \in {extract_json_from_response(raw_response.text)}})

ask_expected_evidence(raw_response) ==
    IF Falsy(raw_response) THEN Returns("no_response", <<LLM_ERROR>>)
    ELSE Returns("parsed", <<Strip(raw_response.text)>>)

\* ------------------------------------------------------------- the input
\* columns an input file may have besides the required ones: columns that
\* process_controls deletes, a column it leaves alone, and columns named
\* like a column it assigns
ExtraColumnSets ==
    { << >>,
      <<"Source", "Present", "Missing", "System/data dependencies: Explanation",
        "Comments">>,
      <<"Overall Rating", "Present & Missing",
        "Has the control been formally documented? (When, Why, Who, What, Where and How)">> }

\* row i of the input file under the given columns
Row(i, columns) ==
    [c \in {columns[j] : j \in 1..Len(columns)} |->
        CASE c = "Automation" -> T("Manual")
          [] c = "Detective/ Preventive" -> T("Detective")
          [] c = "Operation Frequency" -> T("Daily")
          [] OTHER -> T(c) \o T(ToString(i))]

\* the table load_and_validate_data returns for a file of n rows that has
\* the required columns and the extra ones: its columns in order, and its
\* rows as iterrows gives them
InputTable(n, extra) ==
    [columns |-> REQUIRED_COLS \o extra,
     rows |-> [i \in 1..n |-> Row(i, REQUIRED_COLS \o extra)]]

\* the input files of the runs: up to MaxRecords rows with the required
\* columns only, and up to MaxExtraRecords rows with extra columns
InputTables ==
    {InputTable(n, << >>) : n \in 0..MaxRecords} \cup
    {InputTable(n, x) : n \in 0..MaxExtraRecords, x \in ExtraColumnSets}

\* ------------------------------------------------------- process_controls
\* the result lists of process_controls
ListNames ==
    {"present_list", "missing_list", "suggestion_list", "present_missing_list",
     "objective_ans", "objective_exp", "exec_ans", "exec_exp",
     "type_ans", "type_exp", "freq_ans", "freq_exp", "sysdep_ans", "sysdep_exp",
     "adaptability_ans", "adaptability_exp",
     "overall_rating_ans", "overall_rating_exp", "potential_evidence_list"}

\* the operations of one record, in the order the loop body calls them
OpNames ==
    <<"ask_llm", "ask_control_objective", "ask_execution_appropriateness",
      "ask_type_adequacy", "ask_frequency_appropriateness",
      "ask_system_dependency", "ask_adaptability", "ask_overall_rating",
      "ask_expected_evidence">>

NumOps == Len(OpNames)

\* the lists the results of operation o are appended to, in order
OpLists(o) ==
    CASE o = 1 -> <<"present_list", "missing_list", "suggestion_list",
                    "present_missing_list">>
      [] o = 2 -> <<"objective_ans", "objective_exp">>
      [] o = 3 -> <<"exec_ans", "exec_exp">>
      [] o = 4 -> <<"type_ans", "type_exp">>
      [] o = 5 -> <<"freq_ans", "freq_exp">>
      [] o = 6 -> <<"sysdep_ans", "sysdep_exp">>
      [] o = 7 -> <<"adaptability_ans", "adaptability_exp">>
      [] o = 8 -> <<"overall_rating_ans", "overall_rating_exp">>
      [] OTHER -> <<"potential_evidence_list">>

\* f"Present:\n{pres}\n\nMissing:\n{miss}"
PresentMissing(pres, miss) ==
    T("Present:\n") \o pres \o T("\n\nMissing:\n") \o miss

\* the values appended after operation o returned the tuple out
Appended(o, out) ==
    IF o = 1 THEN <<out[1], out[2], out[3], PresentMissing(out[1], out[2])>>
    ELSE out

\* the lists after the appends that follow operation o
AppendResults(ls, o, out) ==
    [n \in ListNames |->
        IF \E j \in 1..Len(OpLists(o)) : OpLists(o)[j] = n
        THEN Append(ls[n], Appended(o, out)[CHOOSE j \in 1..Len(OpLists(o)) :
                                                OpLists(o)[j] = n])
        ELSE ls[n]]

\* FillProcessingError without the length test: a marker on every list
FillProcessingErrorAlways(ls, i) ==
    [n \in ListNames |-> Append(ls[n], PROCESSING_ERROR)]

\* FillProcessingError that fills with the marker of a failed call
FillProcessingErrorLlmMarker(ls, i) ==
    [n \in ListNames |->
        IF Len(ls[n]) <= i THEN Append(ls[n], LLM_ERROR) ELSE ls[n]]

\* the except block of the loop body, for the record at index i (0-based)
FillProcessingError(ls, i) ==
    [n \in ListNames |->
        IF Len(ls[n]) <= i THEN Append(ls[n], PROCESSING_ERROR) ELSE ls[n]]

\* Prompt with the Overall Rating built from the results of the first record
PromptOfFirstRecord(o, row, ls, i) ==
    IF o = 8
    THEN [op |-> OpNames[o],
          embeds |-> <<ls["objective_ans"][1], ls["exec_ans"][1],
                       ls["type_ans"][1], ls["freq_ans"][1],
                       ls["sysdep_ans"][1], ls["present_list"][1],
                       ls["missing_list"][1]>>]
    ELSE [op |-> OpNames[o],
          embeds |-> <<row["Control Description"]>>]

\* Prompt with the Adaptability answer embedded in the Overall Rating prompt
PromptWithAdaptability(o, row, ls, i) ==
    CASE o = 1 -> [op |-> OpNames[o], embeds |-> <<row["Control Description"]>>]
      [] o = 2 -> [op |-> OpNames[o],
                   embeds |-> <<row["Risk Description"], row["Control Description"]>>]
      [] o = 3 -> [op |-> OpNames[o],
                   embeds |-> <<row["Automation"], row["Risk Description"],
                                row["Control Description"]>>]
      [] o = 4 -> [op |-> OpNames[o],
                   embeds |-> <<row["Detective/ Preventive"], row["Risk Description"],
                                row["Control Description"]>>]
      [] o = 5 -> [op |-> OpNames[o],
                   embeds |-> <<row["Operation Frequency"], row["Risk Description"],
                                row["Control Description"]>>]
      [] o = 6 -> [op |-> OpNames[o], embeds |-> <<row["Control Description"]>>]
      [] o = 7 -> [op |-> OpNames[o], embeds |-> <<row["Control Description"]>>]
      [] o = 8 -> [op |-> OpNames[o],
                   embeds |-> <<ls["objective_ans"][i + 1], ls["exec_ans"][i + 1],
                                ls["type_ans"][i + 1], ls["freq_ans"][i + 1],
                                ls["sysdep_ans"][i + 1], ls["present_list"][i + 1],
                                ls["missing_list"][i + 1],
                                ls["adaptability_ans"][i + 1]>>]
      [] OTHER -> [op |-> OpNames[o], embeds |-> <<row["Control Description"]>>]

\* the prompt of operation o for the row, with the texts it embeds in order
Prompt(o, row, ls, i) ==
    CASE o = 1 -> [op |-> OpNames[o], embeds |-> <<row["Control Description"]>>]
      [] o = 2 -> [op |-> OpNames[o],
                   embeds |-> <<row["Risk Description"], row["Control Description"]>>]
      [] o = 3 -> [op |-> OpNames[o],
                   embeds |-> <<row["Automation"], row["Risk Description"],
                                row["Control Description"]>>]
      [] o = 4 -> [op |-> OpNames[o],
                   embeds |-> <<row["Detective/ Preventive"], row["Risk Description"],
                                row["Control Description"]>>]
      [] o = 5 -> [op |-> OpNames[o],
                   embeds |-> <<row["Operation Frequency"], row["Risk Description"],
                                row["Control Description"]>>]
      [] o = 6 -> [op |-> OpNames[o], embeds |-> <<row["Control Description"]>>]
      [] o = 7 -> [op |-> OpNames[o], embeds |-> <<row["Control Description"]>>]
      [] o = 8 -> [op |-> OpNames[o],
                   embeds |-> <<ls["objective_ans"][i + 1], ls["exec_ans"][i + 1],
                                ls["type_ans"][i + 1], ls["freq_ans"][i + 1],
                                ls["sysdep_ans"][i + 1], ls["present_list"][i + 1],
                                ls["missing_list"][i + 1]>>]
      [] OTHER -> [op |-> OpNames[o], embeds |-> <<row["Control Description"]>>]

\* what operation o makes of the value its call returned
OpResult(o, raw_response) ==
    CASE o = 1 -> ask_llm(raw_response)
      [] o = 2 -> ask_control_objective(raw_response)
      [] o = 3 -> ask_execution_appropriateness(raw_response)
      [] o = 4 -> ask_type_adequacy(raw_response)
      [] o = 5 -> ask_frequency_appropriateness(raw_response)
      [] o = 6 -> ask_system_dependency(raw_response)
      [] o = 7 -> ask_adaptability(raw_response)
      [] o = 8 -> ask_overall_rating(raw_response)
      [] OTHER -> ask_expected_evidence(raw_response)

\* the header the documentation column is given at the end
present_missing_col ==
    "Has the control been formally documented? (When, Why, Who, What, Where and How)"

\* the analysis columns process_controls assigns, in order, with the list
\* each is assigned from
ANALYSIS_COLS ==
    << <<"Control objective: Is the control designed able to mitigate the risk ?",
         "objective_ans">>,
       <<"Control objective: Explanation", "objective_exp">>,
       <<"Is the control execution appropriate for the risk being addressed?",
         "exec_ans">>,
       <<"Execution appropriateness: Explanation", "exec_exp">>,
       <<"Is the control type adequate for the risk it addresses", "type_ans">>,
       <<"Type adequacy: Explanation", "type_exp">>,
       <<"Is the control frequency appropriate for the associated risk?", "freq_ans">>,
       <<"Frequency appropriateness: Explanation", "freq_exp">>,
       <<"System/data dependencies: Are the systems/data sources used reliable and secure?",
         "sysdep_ans">>,
       <<"Adaptability - Is the control adaptable to new risks or process changes?",
         "adaptability_ans">>,
       <<"Adaptability: Explanation", "adaptability_exp">>,
       <<"Overall Rating", "overall_rating_ans">>,
       <<"Overall Rating: Explanation", "overall_rating_exp">>,
       <<"Potential Evidences Expected Based on Control Description",
         "potential_evidence_list">> >>

\* the columns process_controls adds, under the header each has in the table
\* returned, with the list each is assigned from
OUTPUT_COLS ==
    << <<present_missing_col, "present_missing_list">>,
       <<"Suggestions", "suggestion_list">> >> \o ANALYSIS_COLS

OutputColumnNames == {OUTPUT_COLS[j][1] : j \in 1..Len(OUTPUT_COLS)}
InputColumnNames == {REQUIRED_COLS[j] : j \in 1..Len(REQUIRED_COLS)}

ListOfColumn(c) ==
    OUTPUT_COLS[CHOOSE j \in 1..Len(OUTPUT_COLS) : OUTPUT_COLS[j][1] = c][2]

\* df.rows[column] = list raises a ValueError unless the list has one value per row
ColumnsFit(ls, table) ==
    \A j \in 1..Len(OUTPUT_COLS) : Len(ls[OUTPUT_COLS[j][2]]) = Len(table.rows)

\* the DataFrame by columns: its columns in order, each with its label and
\* its cells by row
Frame(table) ==
    [j \in 1..Len(table.columns) |->
        [name |-> table.columns[j],
         cells |-> [i \in 1..Len(table.rows) |-> table.rows[i][table.columns[j]]]]]

\* df.columns, as a set
Labels(f) == {f[k].name : k \in 1..Len(f)}

\* df.rows[name] = values: the column of that label gets the values and stays
\* where it is; when there is none a column is added at the end
SetColumn(f, name, values) ==
    The({(IF name \in Labels(g)
          THEN [k \in 1..Len(g) |->
                  IF g[k].name = name THEN [g[k] EXCEPT !.cells = values] ELSE g[k]]
          ELSE Append(g, [name |-> name, cells |-> values]))
         : g \in {f}})

RECURSIVE SetColumns(_, _, _)
\* the assignments df.rows[name] = list of the given columns, in order
SetColumns(f, cols, ls) ==
    The({(IF c = << >> THEN g
          ELSE SetColumns(SetColumn(g, Head(c)[1], ls[Head(c)[2]]), Tail(c), ls))
         : g \in {f}, c \in {cols}})

RECURSIVE DropColumn(_, _)
\* if name in df.columns: del df.rows[name]
DropColumn(f, name) ==
    The({(IF g = << >> THEN << >>
          ELSE IF Head(g).name = name THEN DropColumn(Tail(g), name)
          ELSE <<Head(g)>> \o DropColumn(Tail(g), name))
         : g \in {f}})

\* df.rename(columns={old: new}, inplace=True): the label changes, whatever
\* other column has the new label already
RenameColumn(f, old, new) ==
    The({[k \in 1..Len(g) |->
             IF g[k].name = old THEN [g[k] EXCEPT !.name = new] ELSE g[k]]
         : g \in {f}})

\* the columns of the frame other than the added ones that hold "Processing
\* error" in every row
RECURSIVE WithoutFailed(_)
WithoutFailed(f) ==
    The({(IF g = << >> THEN << >>
          ELSE IF /\ Head(g).name \in OutputColumnNames
                  /\ \A i \in 1..Len(Head(g).cells) :
                        Head(g).cells[i] = PROCESSING_ERROR
               THEN WithoutFailed(Tail(g))
          ELSE <<Head(g)>> \o WithoutFailed(Tail(g)))
         : g \in {f}})

\* ResultTable without the columns that hold "Processing error" in every row
ResultTableDropsFailed(ls, table) ==
    WithoutFailed(
        RenameColumn(
            SetColumns(Frame(table),
                       << <<"Present & Missing", "present_missing_list">>,
                          <<"Suggestions", "suggestion_list">> >> \o ANALYSIS_COLS,
                       ls),
            "Present & Missing", present_missing_col))

\* ResultTable without the deletions of lines 616-618, 623-624 and 643-644
ResultTableKeepsColumns(ls, table) ==
    RenameColumn(
        SetColumns(Frame(table),
                   << <<"Present & Missing", "present_missing_list">>,
                      <<"Suggestions", "suggestion_list">> >> \o ANALYSIS_COLS,
                   ls),
        "Present & Missing", present_missing_col)

\* the table process_controls returns, by columns: the assignments, deletions
\* and the renaming of lines 613-649, in the order of the code
ResultTable(ls, table) ==
    LET documented ==
            SetColumn(Frame(table), "Present & Missing", ls["present_missing_list"])
        cleared == DropColumn(DropColumn(documented, "Present"), "Missing")
        suggested == SetColumn(cleared, "Suggestions", ls["suggestion_list"])
        unsourced == DropColumn(suggested, "Source")
        analysed == SetColumns(unsourced, ANALYSIS_COLS, ls)
        final == DropColumn(analysed, "System/data dependencies: Explanation")
    IN RenameColumn(final, "Present & Missing", present_missing_col)

\* ------------------------------------------------- the stubbed responses
\* the text of a JSON object with the given <<key, value text>> members
ObjText(members) ==
    T("{") \o Join(T(","), [i \in 1..Len(members) |->
        Q(members[i][1]) \o T(":") \o T(" ") \o members[i][2]]) \o T("}")

\* what a response says about the record: the last piece of the description
\* the prompt embeds (the Overall Rating prompt embeds no description)
Tag(p) ==
    IF p.op = "ask_overall_rating" THEN "synthesis"
    ELSE LET d == p.embeds[Len(p.embeds)] IN d[Len(d)].s

\* the well-formed response to prompt p
Nominal(p) ==
    CASE p.op = "ask_llm" ->
            ObjText(<< <<"present", ObjText(<< <<"Who", Q(Tag(p))>> >>)>>,
                       <<"missing", ObjText(<< <<"When", Q("No timeline stated")>> >>)>>,
                       <<"suggestions", ObjText(<< <<"When", Q("Add a timeline")>> >>)>> >>)
      [] p.op = "ask_system_dependency" -> ObjText(<< <<"systems", Q(Tag(p))>> >>)
      [] p.op = "ask_overall_rating" ->
            ObjText(<< <<"rating", Q("Effective")>>, <<"explanation", Q(Tag(p))>> >>)
      [] p.op = "ask_expected_evidence" -> T("1. ") \o T(Tag(p))
      [] OTHER -> ObjText(<< <<"answer", Q("Yes")>>, <<"explanation", Q(Tag(p))>> >>)

\* a response with only part of the expected shape
Partial(p) ==
    CASE p.op = "ask_llm" ->
            ObjText(<< <<"present", ObjText(<< <<"Who", Q(Tag(p))>> >>)>> >>)
      [] p.op = "ask_system_dependency" -> ObjText(<< <<"source", Q(Tag(p))>> >>)
      [] p.op = "ask_overall_rating" -> ObjText(<< <<"rating", Q("In-effective")>> >>)
      [] p.op = "ask_expected_evidence" -> T("none")
      [] OTHER -> ObjText(<< <<"answer", Q("No")>> >>)

\* the same result as Nominal(p), wrapped the way models wrap their answers
NominalTexts(p) ==
    IF p.op = "ask_expected_evidence" THEN {Nominal(p), T("\n") \o Nominal(p)}
    ELSE {Nominal(p), T("JSON") \o T("\n") \o Nominal(p) \o T("\n")}

\* the other texts the stub may answer with
DeviantTexts(p) ==
    IF p.op = "ask_expected_evidence"
    THEN {<< >>, T(" "), Partial(p), ObjText(<< <<"answer", Q("No")>> >>)}
    ELSE {<< >>, T(" "), T("Sorry"), T("{") \o T("}"), Partial(p),
          T("[") \o Q("Yes") \o T("]"), T("1"), Q("Yes")}
         \cup (IF p.op = "ask_llm"
               THEN {ObjText(<< <<"present", Q("all")>> >>)} ELSE {})

\* the requests that fail
FailedOutcomes == {NoContent} \cup {ErrorOutcome(m) : m \in ErrorMessages}

\* every outcome of a request with prompt p, with what it costs of MaxFaults
Outcomes(p) ==
    {[o |-> TextOutcome(t), cost |-> 0] : t \in NominalTexts(p)}
    \cup {[o |-> TextOutcome(t), cost |-> 1] : t \in DeviantTexts(p)}
    \cup {[o |-> f, cost |-> 1] : f \in FailedOutcomes}

\* the connection test of initialize_client
PingPrompt == [op |-> "ping", embeds |-> <<T("ping")>>]

ConnectOutcomes ==
    {[o |-> TextOutcome(T("pong")), cost |-> 0],
     [o |-> TextOutcome(<< >>), cost |-> 1]}
    \cup {[o |-> f, cost |-> 1] : f \in FailedOutcomes}

\* ------------------------------------------------------------- the state
VARIABLES
    cfg,        \* Config: MAX_RETRIES, RETRY_DELAY, MAX_RETRY_DELAY, API_KEY
    df,         \* the table of the input file: its columns and its rows
    pc,         \* where main is: start, connect, load, process, save, done, exit
    idx,        \* process_controls: the index of the record in work (0-based)
    op,         \* process_controls: the operation in work (1..9)
    call,       \* the retry loop in work, or the last one that ended
    lists,      \* process_controls: the result lists
    result,     \* the table process_controls returned, by columns (<< >> before)
    written,    \* how many times the workbook was saved to the output file
    faults,     \* requests of process_controls that went wrong so far
    log,        \* process_controls: the calls that ended of the record last in work
    stub,       \* the LLM service as a test stub, and what it has recorded
    parser      \* extract_json_from_response on its own: its input and result

vars == <<cfg, df, pc, idx, op, call, lists, result, written, faults, log,
         stub, parser>>

(***************************************************************************)
(* call: site ("startup" or "op"), rec and op (whose call it is), prompt,  *)
(* active (the loop is running), attempt (the loop variable of the next    *)
(* pass), sent (requests sent), waits (the sleeps, in order), classes (how *)
(* each request ended), ret (what the loop came to: "pending", "text",     *)
(* "None", "client" or "exit"), how (for an operation's call that ended:   *)
(* the return statement the operation took, or "raised"), resp (the value  *)
(* make_llm_call_with_retry returned).                                     *)
(* log holds one entry per call that ended of the record last in work:     *)
(* rec and op (whose call), sent (its requests), last (how the last        *)
(* request ended), how (as in call) and nominal (the response was the      *)
(* well-formed one).                                                       *)
(***************************************************************************)
NoCall ==
    [site |-> "none", rec |-> 0, op |-> 0, prompt |-> PingPrompt, active |-> FALSE,
     attempt |-> 0, sent |-> 0, waits |-> << >>, classes |-> << >>,
     ret |-> "pending", how |-> "pending", resp |-> NoText]

NewCall(site, r, o, p) ==
    [site |-> site, rec |-> r, op |-> o, prompt |-> p, active |-> TRUE,
     attempt |-> 0, sent |-> 0, waits |-> << >>, classes |-> << >>,
     ret |-> "pending", how |-> "pending", resp |-> NoText]

\* the loop in work, entered if it is not running yet
Current(site, r, o, p) == IF call.active THEN call ELSE NewCall(site, r, o, p)

\* AfterPass with a jitter on the sleep that is taken from the clock (the
\* parity of time.time() when the loop goes to sleep)
AfterPassJitter(c, pass, ret) ==
    [c EXCEPT !.active = (pass.next = "retry"),
              !.attempt = IF pass.next = "retry" THEN @ + 1 ELSE @,
              !.sent = @ + 1,
              !.waits = @ \o (IF pass.wait = << >> THEN << >>
                              ELSE <<pass.wait[1] + (stub.clock % 2)>>),
              !.classes = Append(@, pass.class),
              !.ret = ret]

\* the loop after a pass that sent one request
AfterPass(c, pass, ret) ==
    [c EXCEPT !.active = (pass.next = "retry"),
              !.attempt = IF pass.next = "retry" THEN @ + 1 ELSE @,
              !.sent = @ + 1,
              !.waits = @ \o pass.wait,
              !.classes = Append(@, pass.class),
              !.ret = ret]

\* the loop after a pass that sleeps: the loop variable moves on when a pass
\* follows; after the sleep of the last pass it stays, and the loop is over
Sleeping(c, pass) == [AfterPass(c, pass, "pending") EXCEPT !.active = TRUE]

\* the last pass of the loop has sent its request and sleeps, or has slept:
\* no pass is left, and the function has not returned yet
LoopEnding(c) == c.active /\ c.sent > c.attempt

EmptyLists == [n \in ListNames |-> << >>]

(***************************************************************************)
(* stub: the world around a run in a test.                                 *)
(* mode ("free": any outcome; "failing": every request of                  *)
(* process_controls fails, with the outcome held in the field outcome),    *)
(* budget (how many requests of process_controls go wrong at most), run    *)
(* (1, or                                                                  *)
(* 2 when the run is repeated with the same stub), script (what the stub   *)
(* answered to each request of the first run, in order), trace (the        *)
(* requests of the run so far: prompt, number within its call, waits of    *)
(* its call), requests (how many process_controls sent), first (how the    *)
(* first run ended), clock (the time time.time() gives, in seconds),       *)
(* started (start_time of main: the clock when the run began).             *)
(***************************************************************************)
NoRun ==
    [pc |-> "none", result |-> << >>, written |-> 0, trace |-> << >>,
     started |-> 0]

FreeStub ==
    [mode |-> "free", outcome |-> NoContent, budget |-> MaxFaults, run |-> 1,
     script |-> << >>, trace |-> << >>, requests |-> 0, first |-> NoRun,
     clock |-> 0, started |-> 0]

\* the parser not in use
NoParse == [text |-> << >>, data |-> PyNone, done |-> FALSE]

\* the requests of process_controls that the exploration lets go wrong
FaultBudget == stub.budget

\* what the stub may answer to a request with prompt p
StubOutcomes(p) ==
    IF stub.mode = "failing" THEN {[o |-> stub.outcome, cost |-> 1]}
    ELSE Outcomes(p)

Init ==
    /\ cfg \in RunConfigs
    /\ df \in InputTables
    /\ pc = "start"
    /\ idx = 0
    /\ op = 1
    /\ call = NoCall
    /\ lists = EmptyLists
    /\ result = << >>
    /\ written = 0
    /\ faults = 0
    /\ log = << >>
    /\ stub = FreeStub
    /\ parser = NoParse

\* sys.exit(1): the process ends and what it held in memory is gone
Exit ==
    /\ pc' = "exit"
    /\ idx' = 0
    /\ op' = 1
    /\ lists' = EmptyLists
    /\ result' = << >>
    /\ faults' = 0
    /\ log' = << >>
    /\ UNCHANGED <<cfg, df, written>>

\* main calls initialize_client, which checks the API key and builds the client
Start ==
    /\ pc = "start"
    /\ IF cfg.API_KEY = "YOUR_OPENAI_API_KEY_HERE"
       THEN Exit /\ UNCHANGED call
       ELSE /\ pc' = "connect"
            /\ call' = NewCall("startup", 0, 0, PingPrompt)
            /\ UNCHANGED <<cfg, df, idx, op, lists, result, written, faults, log>>

\* one pass of the connection test loop of initialize_client, up to its sleep
\* when it sleeps; or, after the sleep of the last pass, the end of the loop
\* and the sys.exit(1) that follows it
ConnectAttempt ==
    /\ pc = "connect"
    /\ IF LoopEnding(call)
       THEN /\ call' = [call EXCEPT !.active = FALSE, !.ret = "exit"]
            /\ Exit
       ELSE \E oc \in ConnectOutcomes :
            LET c == Current("startup", 0, 0, PingPrompt)
                pass == ConnectPass(cfg, c.attempt, oc.o)
            IN CASE pass.next = "retry" \/ (pass.next = "exit" /\ pass.wait # << >>) ->
                         /\ call' = Sleeping(c, pass)
                         /\ UNCHANGED <<cfg, df, pc, idx, op, lists, result, written,
                                        faults, log>>
                    [] pass.next = "return" ->
                         /\ call' = AfterPass(c, pass, "client")
                         /\ pc' = "load"
                         /\ UNCHANGED <<cfg, df, idx, op, lists, result, written,
                                        faults, log>>
                    [] OTHER ->
                         /\ call' = AfterPass(c, pass, "exit")
                         /\ Exit

\* load_and_validate_data returns the table
LoadData ==
    /\ pc = "load"
    /\ pc' = "process"
    /\ idx' = 0
    /\ op' = 1
    /\ lists' = EmptyLists
    /\ UNCHANGED <<cfg, df, call, result, written, faults, log>>

\* load_and_validate_data cannot read the file, or a column is missing
LoadFails ==
    /\ pc = "load"
    /\ Exit
    /\ UNCHANGED call

\* the state of the loop body after operation o of record i returned res
AfterOp(i, o, res) ==
    IF res.raised
    THEN /\ lists' = FillProcessingError(lists, i)
         /\ idx' = i + 1
         /\ op' = 1
    ELSE /\ lists' = AppendResults(lists, o, res.out)
         /\ idx' = IF o = NumOps THEN i + 1 ELSE i
         /\ op' = IF o = NumOps THEN 1 ELSE o + 1

\* one pass of make_llm_call_with_retry for the operation in work, up to its
\* sleep when it sleeps, and, when the call returns, the rest of the operation
\* and its appends; or, after the sleep of the last pass, the end of the loop,
\* the return of None, the rest of the operation and its appends
LlmCall ==
    /\ pc = "process"
    /\ idx < Len(df.rows)
    /\ IF LoopEnding(call)
       THEN /\ call' = [call EXCEPT !.active = FALSE, !.ret = "None",
                                    !.how = OpResult(op, NoText).path,
                                    !.resp = NoText]
            /\ log' = Append(IF op = 1 THEN << >> ELSE log,
                 [rec |-> idx, op |-> op, sent |-> call.sent,
                  last |-> call.classes[Len(call.classes)],
                  how |-> OpResult(op, NoText).path,
                  nominal |-> FALSE])
            /\ AfterOp(idx, op, OpResult(op, NoText))
            /\ UNCHANGED faults
       ELSE LET p == Prompt(op, df.rows[idx + 1], lists, idx) IN
            \E oc \in StubOutcomes(p) :
            LET c == Current("op", idx, op, p)
                pass == RetryPass(cfg, c.attempt, oc.o)
            IN /\ faults + oc.cost <= FaultBudget
               /\ faults' = faults + oc.cost
               /\ IF pass.next = "retry" \/ pass.wait # << >>
                  THEN /\ call' = Sleeping(c, pass)
                       /\ UNCHANGED <<idx, op, lists, log>>
                  ELSE /\ call' = [AfterPass(c, pass,
                                             IF pass.ret.none THEN "None" ELSE "text")
                                   EXCEPT !.how = OpResult(op, pass.ret).path,
                                          !.resp = pass.ret]
                       /\ log' = Append(IF op = 1 THEN << >> ELSE log,
                            [rec |-> idx, op |-> op, sent |-> c.sent + 1,
                             last |-> pass.class,
                             how |-> OpResult(op, pass.ret).path,
                             nominal |-> oc.o \in {TextOutcome(t) : t \in NominalTexts(p)}])
                       /\ AfterOp(idx, op, OpResult(op, pass.ret))
    /\ UNCHANGED <<cfg, df, pc, result, written>>

\* the loop is over: process_controls assigns the columns and returns; a list
\* that does not fit the table raises, and main exits
FinishProcess ==
    /\ pc = "process"
    /\ idx >= Len(df.rows)
    /\ IF ColumnsFit(lists, df)
       THEN /\ result' = ResultTable(lists, df)
            /\ pc' = "save"
            /\ UNCHANGED <<cfg, df, idx, op, call, lists, written, faults, log>>
       ELSE Exit /\ UNCHANGED call

\* save_results_to_excel returns: the workbook was saved to the output file
\* by wb.save and again by the ExcelWriter when the with block was left
SaveResults ==
    /\ pc = "save"
    /\ written' = written + 2
    /\ pc' = "done"
    /\ UNCHANGED <<cfg, df, idx, op, call, lists, result, faults, log>>

\* save_results_to_excel raises before a save was made (the writer cannot
\* open the file, or no save gets through), and main exits
SaveFails ==
    /\ pc = "save"
    /\ Exit
    /\ UNCHANGED call

\* KeyboardInterrupt or exception in save_results_to_excel after the writer
\* was opened: leaving the `with pd.ExcelWriter` block closes the writer,
\* which saves the workbook (one save), and when wb.save had been made
\* before there are two; main exits
SaveInterrupted ==
    /\ pc = "save"
    /\ \E saves \in 1..2 : written' = written + saves
    /\ pc' = "exit"
    /\ idx' = 0
    /\ op' = 1
    /\ lists' = EmptyLists
    /\ result' = << >>
    /\ faults' = 0
    /\ log' = << >>
    /\ UNCHANGED <<cfg, df, call>>

\* KeyboardInterrupt while main runs
Interrupt ==
    /\ pc \in {"connect", "load", "process", "save"}
    /\ Exit
    /\ UNCHANGED call

\* a prompt for a call of make_llm_call_with_retry on its own
TestPrompt == [op |-> "test", embeds |-> <<T("Control Description")>>]

\* one pass of make_llm_call_with_retry called on its own, once, with the
\* client, its request having the outcome o; the pass goes up to its sleep
\* when it sleeps
StandalonePass(o) ==
    /\ pc = "load"
    /\ call.site = "test" => call.active
    /\ ~LoopEnding(call)
    /\ LET c == Current("test", 0, 0, TestPrompt)
           pass == RetryPass(cfg, c.attempt, o)
       IN call' = IF pass.next = "retry" \/ pass.wait # << >>
                  THEN Sleeping(c, pass)
                  ELSE [AfterPass(c, pass, IF pass.ret.none THEN "None" ELSE "text")
                        EXCEPT !.resp = pass.ret]
    /\ UNCHANGED <<cfg, df, pc, idx, op, lists, result, written, faults, log>>

\* after the sleep of the last pass the loop is over and None is returned
StandaloneReturn ==
    /\ pc = "load"
    /\ call.site = "test"
    /\ LoopEnding(call)
    /\ call' = [call EXCEPT !.active = FALSE, !.ret = "None", !.resp = NoText]
    /\ UNCHANGED <<cfg, df, pc, idx, op, lists, result, written, faults, log>>

StandaloneCall ==
    IF LoopEnding(call) THEN StandaloneReturn
    ELSE \E oc \in Outcomes(TestPrompt) : StandalonePass(oc.o)

\* a step of the run leaves the stub's records and the parser alone
Unobserved == UNCHANGED <<stub, parser>>

Next ==
    \/ Start /\ Unobserved
    \/ ConnectAttempt /\ Unobserved
    \/ LoadData /\ Unobserved
    \/ LoadFails /\ Unobserved
    \/ LlmCall /\ Unobserved
    \/ FinishProcess /\ Unobserved
    \/ SaveResults /\ Unobserved
    \/ SaveFails /\ Unobserved
    \/ SaveInterrupted /\ Unobserved
    \/ Interrupt /\ Unobserved

Spec == Init /\ [][Next]_vars

\* the two retry loops on their own, under every retry configuration
InitRetry ==
    /\ cfg \in Configs
    /\ df = InputTable(0, << >>)
    /\ pc = "start"
    /\ idx = 0
    /\ op = 1
    /\ call = NoCall
    /\ lists = EmptyLists
    /\ result = << >>
    /\ written = 0
    /\ faults = 0
    /\ log = << >>
    /\ stub = FreeStub
    /\ parser = NoParse

NextRetry ==
    \/ Start /\ Unobserved
    \/ ConnectAttempt /\ Unobserved
    \/ StandaloneCall /\ Unobserved

SpecRetry == InitRetry /\ [][NextRetry]_vars

\* the retry loops on their own, with the outcome of the last request of
\* make_llm_call_with_retry kept in stub.outcome
ObservedCall ==
    IF LoopEnding(call) THEN StandaloneReturn /\ UNCHANGED <<stub, parser>>
    ELSE \E oc \in Outcomes(TestPrompt) :
            /\ StandalonePass(oc.o)
            /\ stub' = [stub EXCEPT !.outcome = oc.o]
            /\ UNCHANGED parser

NextObserved ==
    \/ Start /\ Unobserved
    \/ ConnectAttempt /\ Unobserved
    \/ ObservedCall

SpecObserved == InitRetry /\ [][NextObserved]_vars

\* ------------------------------------------------- runs with a fixed stub
\* a step of a run of main that nothing outside the LLM service disturbs
RunStep ==
    \/ Start
    \/ ConnectAttempt
    \/ LoadData
    \/ LlmCall
    \/ FinishProcess
    \/ SaveResults

\* this step sent a request (a pass of a retry loop): a loop is entered with
\* nothing sent, and every pass adds to call.sent and call.classes
Requested == call' # call /\ call'.classes # << >> /\ ~LoopEnding(call)

\* what the service answered to the request of this step, as the loop saw it
Answer == [class |-> call'.classes[Len(call'.classes)], resp |-> call'.resp]

\* the request of this step: its prompt, its number within its call, and the
\* sleeps of its call up to and including the one that follows it
Request == [prompt |-> call'.prompt, sent |-> call'.sent, waits |-> call'.waits]

\* the stub after the request of this step
Observe ==
    [stub EXCEPT !.script = IF stub.run = 1 THEN Append(@, Answer) ELSE @,
                 !.trace = Append(@, Request),
                 !.requests = IF call'.site = "op" THEN @ + 1 ELSE @]

\* the seconds the loop sleeps in this step
Slept ==
    IF Requested /\ Len(call'.waits) > Len(IF call.active THEN call.waits ELSE << >>)
    THEN call'.waits[Len(call'.waits)] ELSE 0

\* the clock after this step, and the reading main takes of it when it
\* begins (start_time)
Tick(st) ==
    [st EXCEPT !.clock = @ + Slept,
               !.started = IF pc = "start" THEN st.clock ELSE @]

\* the answer is not wrapped in a leading marker word
PlainAnswer ==
    IF call'.resp.text = << >> THEN TRUE
    ELSE Lower(Head(call'.resp.text).s) # "json"

\* the first run: the stub answers freely and records what it answered
FirstRun ==
    /\ stub.run = 1
    /\ RunStep
    /\ faults' <= MaxStubFaults
    /\ IF Requested THEN PlainAnswer ELSE TRUE
    /\ stub' = Tick(IF Requested THEN Observe ELSE stub)
    /\ UNCHANGED parser

\* the run is over: some time later main is started again, in a new process,
\* on the same input file with the same stub; the output file is as the
\* first run left it
Repeat ==
    /\ stub.run = 1
    /\ pc \in {"done", "exit"}
    /\ \E gap \in 1..MaxGap :
          stub' = [stub EXCEPT !.run = 2, !.trace = << >>, !.requests = 0,
                               !.clock = @ + gap,
                               !.first = [pc |-> pc, result |-> result,
                                          written |-> written,
                                          trace |-> stub.trace,
                                          started |-> stub.started]]
    /\ pc' = "start"
    /\ idx' = 0
    /\ op' = 1
    /\ call' = NoCall
    /\ lists' = EmptyLists
    /\ result' = << >>
    /\ faults' = 0
    /\ log' = << >>
    /\ UNCHANGED <<cfg, df, written, parser>>

\* the second run: the stub answers the k-th request as it did in the first run
SecondRun ==
    /\ stub.run = 2
    /\ RunStep
    /\ IF Requested /\ Len(stub.trace) < Len(stub.script)
       THEN Answer = stub.script[Len(stub.trace) + 1]
       ELSE TRUE
    /\ stub' = Tick(IF Requested THEN Observe ELSE stub)
    /\ UNCHANGED parser

NextTwice ==
    \/ FirstRun
    \/ Repeat
    \/ SecondRun

SpecTwice == Init /\ [][NextTwice]_vars

\* ------------------------------------------------- runs that must end
\* the stubs: one that answers freely, and for every way a request can fail
\* one that fails every request of process_controls that way
Stubs ==
    {[FreeStub EXCEPT !.budget = MaxStubFaults]} \cup
    {[FreeStub EXCEPT !.mode = "failing", !.outcome = f,
                      !.budget = NumOps * MaxRecords * MaxRunRetries] :
        f \in FailedOutcomes}

InitTerm ==
    /\ cfg \in RunConfigs
    /\ df \in InputTables
    /\ pc = "start"
    /\ idx = 0
    /\ op = 1
    /\ call = NoCall
    /\ lists = EmptyLists
    /\ result = << >>
    /\ written = 0
    /\ faults = 0
    /\ log = << >>
    /\ stub \in Stubs
    /\ parser = NoParse

\* a step of a call of process_controls: the stub counts the request of a pass
TermLlmCall ==
    /\ LlmCall
    /\ stub' = [stub EXCEPT !.requests = IF LoopEnding(call) THEN @ ELSE @ + 1]
    /\ UNCHANGED parser

\* any other step of the run
TermOther ==
    /\ Start \/ ConnectAttempt \/ LoadData \/ FinishProcess \/ SaveResults
    /\ UNCHANGED <<stub, parser>>

NextTerm ==
    \/ TermLlmCall
    \/ TermOther

\* the program goes on whenever it can, and its sleeps end
SpecTerm == InitTerm /\ [][NextTerm]_vars /\ WF_vars(NextTerm)

\* ------------------------------------------------------- the parser alone
\* the pieces a response text is made of (no quoted piece holds a brace)
TextPieces ==
    {T("json")[1], T("JSON")[1], T("{")[1], T("}")[1], Q("a")[1], T(":")[1],
     T("1")[1], T("\n")[1], T("Sorry")[1]}

ResponseTexts == UNION {[1..n -> TextPieces] : n \in 0..MaxTextLen}

InitParser ==
    /\ cfg \in {c \in DefaultConfigs : c.API_KEY = "sk-key"}
    /\ df = InputTable(0, << >>)
    /\ pc = "start"
    /\ idx = 0
    /\ op = 1
    /\ call = NoCall
    /\ lists = EmptyLists
    /\ result = << >>
    /\ written = 0
    /\ faults = 0
    /\ log = << >>
    /\ stub = FreeStub
    /\ parser \in {[NoParse EXCEPT !.text = t] : t \in ResponseTexts}

\* extract_json_from_response is called on the text and returns
Parse ==
    /\ ~parser.done
    /\ parser' = [parser EXCEPT !.data = extract_json_from_response(parser.text),
                                !.done = TRUE]
    /\ UNCHANGED <<cfg, df, pc, idx, op, call, lists, result, written, faults,
                   log, stub>>

NextParser == Parse

SpecParser == InitParser /\ [][NextParser]_vars

\* ------------------------------------------------------------ properties
Last(sq) == sq[Len(sq)]
SeqRange(sq) == {sq[j] : j \in 1..Len(sq)}

\* the lists that become columns of the result table
ColumnLists == {OUTPUT_COLS[j][2] : j \in 1..Len(OUTPUT_COLS)}

\* the labels of the columns of the input file
InputLabels == {df.columns[j] : j \in 1..Len(df.columns)}

\* the input columns process_controls deletes, and those it assigns to
DeletedColumns ==
    {"Present", "Missing", "Source", "System/data dependencies: Explanation"}
AssignedColumns ==
    {"Present & Missing"} \cup (OutputColumnNames \ {present_missing_col})

\* the input columns that come through process_controls as they are
KeptColumns == InputLabels \ (DeletedColumns \cup AssignedColumns)

\* the positions of the columns of table t that have the label c
Named(t, c) == {k \in 1..Len(t) : t[k].name = c}

\* the cells of the column of table t with the label c (of one of them when
\* two columns have it)
Cells(t, c) == t[CHOOSE k \in Named(t, c) : TRUE].cells

\* the cell names record j (the responses name the record they answer about)
Mentions(cell, j) == \E k \in 1..Len(cell) : cell[k].s = ToString(j)

\* the position in the loop after operation o of record i returned
NextPos(i, o) == IF o = NumOps THEN <<i + 1, 1>> ELSE <<i, o + 1>>

\* this step is a pass of a retry loop (it sent a request, which call.sent
\* and call.classes count)
PassStep == call' # call /\ call'.classes # << >> /\ ~LoopEnding(call)

\* this step is a pass of the call of an operation of process_controls
OpPass == PassStep /\ call'.site = "op"

\* this step is a step of a retry loop: a pass, or the end of the loop after
\* the sleep of its last pass
LoopStep == call' # call /\ call'.classes # << >>

\* this step is a step of the retry loop of an operation's call
OpStep == LoopStep /\ call'.site = "op"

\* the call of an operation has just ended and nothing has happened since
OpCallEnded == pc = "process" /\ call.site = "op" /\ ~call.active

\* every request of the call failed with a retryable error
AllRetryable(c) ==
    \A k \in 1..Len(c.classes) : c.classes[k] \in {"rate", "other"}

(***************************************************************************)
(* C1: for every input of N >= 0 records and every combination of          *)
(* failures, process_controls produces exactly N rows and row i holds the  *)
(* results computed for input record i.  While the loop runs every list    *)
(* holds one value per finished record (and one more for the operations    *)
(* already done of the record in work), no value ever names another        *)
(* record than the one of its row, the columns always fit the table, and   *)
(* the table returned has N rows with the input fields of record i and     *)
(* results of record i at row i.                                           *)
(***************************************************************************)
C1_RowsFollowInput ==
    /\ pc = "process" =>
          /\ \A o \in 1..NumOps : \A n \in SeqRange(OpLists(o)) :
                Len(lists[n]) = IF o < op THEN idx + 1 ELSE idx
          /\ \A n \in ListNames : \A i \in 1..Len(lists[n]) : \A j \in 1..Len(df.rows) :
                Mentions(lists[n][i], j) => j = i
          /\ idx <= Len(df.rows)
          /\ idx = Len(df.rows) => ColumnsFit(lists, df)
    /\ pc \in {"save", "done"} =>
          /\ Labels(result) = KeptColumns \cup OutputColumnNames
          /\ InputColumnNames \subseteq KeptColumns
          /\ \A k \in 1..Len(result) : Len(result[k].cells) = Len(df.rows)
          /\ \A c \in KeptColumns : \A i \in 1..Len(df.rows) :
                \E k \in Named(result, c) : result[k].cells[i] = df.rows[i][c]
          /\ \A c \in InputColumnNames : \A i \in 1..Len(df.rows) :
                \A k \in Named(result, c) : result[k].cells[i] = df.rows[i][c]
          /\ \A c \in OutputColumnNames : \A k \in Named(result, c) :
                \A i \in 1..Len(df.rows) : \A j \in 1..Len(df.rows) :
                    Mentions(result[k].cells[i], j) => j = i

\* two records: the first with a failed call and then an operation that
\* raised, the second with its own results
C1_Witness ==
    /\ pc = "done"
    /\ Len(df.rows) >= 2
    /\ Cells(result, "Control objective: Explanation")[1] = LLM_ERROR
    /\ Cells(result, "Overall Rating")[1] = PROCESSING_ERROR
    /\ Mentions(Cells(result, "Control objective: Explanation")[2], 2)
    /\ Mentions(Cells(result, "Potential Evidences Expected Based on Control Description")[2], 2)

(***************************************************************************)
(* C2: no failure of an operation (its call failed, its response did not   *)
(* parse, or it raised) leaves an output cell of that operation absent or  *)
(* empty: each holds a marker, "LLM error" or "Processing error".          *)
(***************************************************************************)
C2_FailureLeavesMarkers ==
    (OpCallEnded /\ call.how \in {"no_response", "no_data", "raised"}) =>
        \A n \in SeqRange(OpLists(call.op)) \cap ColumnLists :
            /\ Len(lists[n]) >= call.rec + 1
            /\ lists[n][call.rec + 1] # << >>
            /\ \E k \in 1..Len(lists[n][call.rec + 1]) :
                  <<lists[n][call.rec + 1][k]>> \in {LLM_ERROR, PROCESSING_ERROR}

(***************************************************************************)
(* C3: one invocation of a retry loop sends at most MAX_RETRIES requests;  *)
(* a request that succeeds is the last one sent, and its text is what the  *)
(* invocation returns, so a result rests on at most one successful         *)
(* response.                                                               *)
(***************************************************************************)
C3_AtMostOneSuccess ==
    /\ call.sent <= cfg.MAX_RETRIES
    /\ call.sent = Len(call.classes)
    /\ \A k \in 1..Len(call.classes) :
          call.classes[k] = "ok" =>
              /\ k = Len(call.classes)
              /\ ~call.active
              /\ call.ret \in {"text", "client"}
    /\ call.ret \in {"text", "client"} => Last(call.classes) = "ok"

\* a call on its own that succeeded on the last request of its budget
C3_Witness ==
    /\ call.site = "test"
    /\ call.ret = "text"
    /\ call.sent = cfg.MAX_RETRIES
    /\ call.sent >= 3

(***************************************************************************)
(* C4: when every request of an operation's call fails with a retryable    *)
(* error until MAX_RETRIES requests were sent, the call returns None (it   *)
(* does not raise), the operation reports "LLM error" in its own results   *)
(* only, and the loop goes on with the next operation.  (After a rate      *)
(* limited last request the loop sleeps first, nothing else changing, and  *)
(* the call returns on the step after.)                                    *)
(***************************************************************************)
C4_ExhaustionDegrades ==
    [][(OpStep /\ call'.sent = cfg.MAX_RETRIES /\ AllRetryable(call')) =>
          IF call'.active
          THEN /\ Last(call'.classes) = "rate"
               /\ LoopEnding(call')
               /\ ~LoopEnding(call)
               /\ pc' = "process"
               /\ idx' = idx /\ op' = op /\ lists' = lists /\ log' = log
          ELSE /\ call'.ret = "None"
               /\ call'.how = "no_response"
               /\ pc' = "process"
               /\ <<idx', op'>> = NextPos(idx, op)
               /\ \A n \in ListNames \ SeqRange(OpLists(op)) : lists'[n] = lists[n]
               /\ \A n \in SeqRange(OpLists(op)) :
                     /\ Len(lists'[n]) = Len(lists[n]) + 1
                     /\ SubSeq(lists'[n], 1, Len(lists[n])) = lists[n]
               /\ \E n \in SeqRange(OpLists(op)) \cap ColumnLists :
                     \E k \in 1..Len(Last(lists'[n])) :
                         <<Last(lists'[n])[k]>> = LLM_ERROR]_vars

\* a call that was rate limited, then failed otherwise, and is out of budget
C4_Witness ==
    /\ OpCallEnded
    /\ call.classes = <<"rate", "other">>
    /\ call.sent = cfg.MAX_RETRIES
    /\ call.ret = "None"
    /\ op = 7
    /\ lists["sysdep_ans"][idx + 1] = LLM_ERROR

(***************************************************************************)
(* C5: after a rate-limited failure of the request at attempt a (0-based)  *)
(* the loop waits exactly min(RETRY_DELAY * 2^a, MAX_RETRY_DELAY), and     *)
(* goes on to another request unless that was the last of MAX_RETRIES,     *)
(* under every configuration.                                              *)
(***************************************************************************)
C5_RateLimitWait ==
    \A k \in 1..Len(call.classes) :
        call.classes[k] = "rate" =>
            /\ Len(call.waits) >= k
            /\ call.waits[k] =
                  IF cfg.RETRY_DELAY * 2 ^ (k - 1) < cfg.MAX_RETRY_DELAY
                  THEN cfg.RETRY_DELAY * 2 ^ (k - 1)
                  ELSE cfg.MAX_RETRY_DELAY
            /\ (k = Len(call.classes) /\ k < cfg.MAX_RETRIES) =>
                  (call.active /\ call.attempt = k)

\* a rate-limited request whose wait the cap cut, with a retry to follow
C5_Witness ==
    /\ call.site = "test"
    /\ Len(call.classes) >= 2
    /\ Last(call.classes) = "rate"
    /\ call.active
    /\ Last(call.waits) = cfg.MAX_RETRY_DELAY
    /\ cfg.RETRY_DELAY * 2 ^ (Len(call.classes) - 1) > cfg.MAX_RETRY_DELAY

(***************************************************************************)
(* C6: the wait after any failure is min(RETRY_DELAY * 2^a,                *)
(* MAX_RETRY_DELAY), so no wait of a retry loop exceeds MAX_RETRY_DELAY,   *)
(* under every configuration.                                              *)
(***************************************************************************)
C6_NoWaitAboveCap ==
    \A k \in 1..Len(call.waits) : call.waits[k] <= cfg.MAX_RETRY_DELAY

(***************************************************************************)
(* C7 as stated: a request that fails with an authentication or not-found  *)
(* error ends its retry loop at once and terminates the whole run.         *)
(***************************************************************************)
C7_AuthAlwaysFatal ==
    [][(PassStep /\ Last(call'.classes) \in {"auth", "notfound"}) =>
          (~call'.active /\ pc' = "exit")]_vars

(***************************************************************************)
(* C7 amended: a request that fails with an authentication or not-found    *)
(* error ends its retry loop at once (no further request); in the          *)
(* connection test of initialize_client the run is terminated, in          *)
(* make_llm_call_with_retry None is returned to the caller and the run     *)
(* goes on.                                                                *)
(***************************************************************************)
C7_AuthEndsLoop ==
    [][(PassStep /\ Last(call'.classes) \in {"auth", "notfound"}) =>
          /\ ~call'.active
          /\ call'.attempt = Len(call'.classes) - 1
          /\ call'.site = "startup" => (call'.ret = "exit" /\ pc' = "exit")
          /\ call'.site = "op" =>
                (call'.ret = "None" /\ call'.how = "no_response" /\ pc' = "process"
                 /\ <<idx', op'>> = NextPos(idx, op))]_vars

\* an authentication failure on the first request of an operation's call,
\* with requests left in the budget, and the loop at the next operation
C7_Witness ==
    /\ OpCallEnded
    /\ call.classes = <<"auth">>
    /\ cfg.MAX_RETRIES >= 2
    /\ call.ret = "None"
    /\ <<idx, op>> = NextPos(call.rec, call.op)

(***************************************************************************)
(* C8: an authentication or not-found failure of a request made while      *)
(* records are processed ends that call with no further request, every     *)
(* output field of the operation becomes an error marker, and the loop     *)
(* goes on with the next operation.                                        *)
(***************************************************************************)
C8_MidRunShortCircuit ==
    [][(OpPass /\ Last(call'.classes) \in {"auth", "notfound"}) =>
          /\ ~call'.active
          /\ pc' = "process"
          /\ <<idx', op'>> = NextPos(idx, op)
          /\ \A n \in SeqRange(OpLists(op)) \cap ColumnLists :
                \E k \in 1..Len(Last(lists'[n])) :
                    <<Last(lists'[n])[k]>> = LLM_ERROR]_vars

(***************************************************************************)
(* C9: no record is processed and no operation's call is made unless the   *)
(* connection test succeeded first: initialize_client returns only on a    *)
(* successful test response; a missing API key, an authentication or       *)
(* not-found error, or a test that used up its requests ends the run       *)
(* before any processing.                                                  *)
(***************************************************************************)
C9_StartupGate ==
    [][/\ (pc' = "load" /\ pc # "load") =>
             (pc = "connect" /\ call'.site = "startup" /\ call'.ret = "client"
              /\ Last(call'.classes) = "ok")
       /\ (pc' = "process" /\ pc # "process") => pc = "load"
       /\ (LoopStep /\ call'.site = "op") => pc = "process"
       /\ (pc = "start" /\ cfg.API_KEY = "YOUR_OPENAI_API_KEY_HERE") => pc' = "exit"
       /\ (LoopStep /\ call'.site = "startup" /\ call'.active) =>
             (pc' = "connect" /\ Last(call'.classes) # "ok")
       /\ (LoopStep /\ call'.site = "startup" /\ ~call'.active
           /\ Last(call'.classes) # "ok") =>
             (pc' = "exit" /\ lists' = EmptyLists /\ written' = 0)
       /\ (pc \in {"start", "connect"}) => (lists = EmptyLists /\ idx = 0)]_vars

\* the connection test was rate limited on every request of its budget and
\* the run ended
C9_Witness ==
    /\ pc = "exit"
    /\ call.site = "startup"
    /\ ~call.active
    /\ call.ret = "exit"
    /\ call.sent = cfg.MAX_RETRIES
    /\ call.sent >= 2
    /\ Last(call.classes) = "rate"

\* the results an operation is expected to give, as the lists they go to
ExpectedFields(o) ==
    CASE o = 1 -> {"present_list", "missing_list", "suggestion_list"}
      [] o = 6 -> {"sysdep_ans"}
      [] OTHER -> SeqRange(OpLists(o))

(***************************************************************************)
(* C10: when the call of an operation fails, the operation returns the     *)
(* marker "LLM error" for every one of its expected fields.                *)
(***************************************************************************)
C10_UniformMarkerOnCallFailure ==
    (OpCallEnded /\ call.ret = "None") =>
        \A n \in ExpectedFields(call.op) : lists[n][call.rec + 1] = LLM_ERROR

\* the keys an operation reads from the parsed response, in the order of the
\* lists their values go to
ExpectedKeys(o) ==
    CASE o = 1 -> <<"present", "missing", "suggestions">>
      [] o = 6 -> <<"systems">>
      [] o = 8 -> <<"rating", "explanation">>
      [] o = 9 -> << >>
      [] OTHER -> <<"answer", "explanation">>

\* what the parser makes of the response the ended call returned
ParsedResponse == extract_json_from_response(call.resp.text)

\* the cell of record call.rec that holds the value of the j-th expected key
KeyCell(j) == lists[OpLists(call.op)[j]][call.rec + 1]

\* the text an operation makes of the value v of one of its keys
KeyText(o, v) == IF o = 1 THEN Bullets(v) ELSE PyStr(v)

(***************************************************************************)
(* C11: when the response of an operation that expects JSON parses to a    *)
(* non-empty mapping that lacks some of the expected keys, the operation   *)
(* returns normally (it does not raise), the field of each absent key is   *)
(* the marker "LLM error" and the field of each present key is the value   *)
(* the response gave for it.                                               *)
(***************************************************************************)
C11_AbsentKeysBecomeMarkers ==
    (/\ OpCallEnded
     /\ call.op # 9
     /\ ~Falsy(call.resp)
     /\ ParsedResponse.k = "obj"
     /\ Truthy(ParsedResponse)) =>
        /\ call.how = "parsed"
        /\ \A j \in 1..Len(ExpectedKeys(call.op)) :
              KeyCell(j) =
                  IF HasKey(ParsedResponse.items, ExpectedKeys(call.op)[j])
                  THEN KeyText(call.op, Get(ParsedResponse,
                                            ExpectedKeys(call.op)[j], PyNone))
                  ELSE LLM_ERROR

\* the response the ended call returned is no JSON: it is empty or the parser
\* gave up on it
NotJson == Falsy(call.resp) \/ ParsedResponse.k = "None"

(***************************************************************************)
(* C12: whatever the text of a response, the operation does not raise to   *)
(* process_controls; and when the text is malformed or no JSON where JSON  *)
(* was expected, every expected field of the operation is the marker       *)
(* "LLM error".                                                            *)
(***************************************************************************)
C12_ResponseContentNeverRaises ==
    (OpCallEnded /\ ~call.resp.none) =>
        /\ call.how # "raised"
        /\ (call.op # 9 /\ NotJson) =>
              \A n \in ExpectedFields(call.op) :
                  lists[n][call.rec + 1] = LLM_ERROR

\* the five results the Overall Rating prompt is built from, as their lists
Prerequisites ==
    <<"objective_ans", "exec_ans", "type_ans", "freq_ans", "sysdep_ans">>

(***************************************************************************)
(* C13: every request is made for the operation the loop is at, of the     *)
(* record the loop is at.  Completeness is requested before the record has *)
(* any result; Overall Rating is requested only when Objective, Execution, *)
(* Type, Frequency and Dependency of the same record each have their       *)
(* result (a value or a marker) and no later operation has one, and its    *)
(* prompt carries exactly those five results of that record, followed by   *)
(* the present and missing texts of that record; Expected Evidence is      *)
(* requested only when Overall Rating of the record has its result.        *)
(***************************************************************************)
C13_OverallRatingAfterPrerequisites ==
    [][OpPass =>
          /\ call'.rec = idx /\ call'.op = op
          /\ call'.prompt.op = OpNames[op]
          /\ op = 1 => \A n \in ListNames : Len(lists[n]) = idx
          /\ op = 8 =>
                /\ \A j \in 1..Len(Prerequisites) :
                      /\ Len(lists[Prerequisites[j]]) = idx + 1
                      /\ lists[Prerequisites[j]][idx + 1] # << >>
                      /\ call'.prompt.embeds[j] = lists[Prerequisites[j]][idx + 1]
                /\ call'.prompt.embeds[6] = lists["present_list"][idx + 1]
                /\ call'.prompt.embeds[7] = lists["missing_list"][idx + 1]
                /\ Len(call'.prompt.embeds) = 7
                /\ Len(lists["overall_rating_ans"]) = idx
                /\ Len(lists["potential_evidence_list"]) = idx
          /\ op = 9 =>
                /\ Len(lists["overall_rating_ans"]) = idx + 1
                /\ Len(lists["potential_evidence_list"]) = idx]_vars

\* the Overall Rating of the second record was requested with a marker for
\* its Dependency result, while the first record's Dependency had a value
C13_Witness ==
    /\ pc = "process"
    /\ call.site = "op" /\ call.op = 8 /\ call.rec = 1
    /\ call.classes # << >>
    /\ call.prompt.embeds[5] = LLM_ERROR
    /\ lists["sysdep_ans"][1] # LLM_ERROR
    /\ call.prompt.embeds[1] = T("Yes")

(***************************************************************************)
(* C14: when an operation of record i raises, the batch is not aborted:    *)
(* every list that has no value for record i yet gets the marker           *)
(* "Processing error" (which differs from "LLM error"), every list that    *)
(* has one keeps it, no value of another record changes, and the loop goes *)
(* on with the first operation of record i+1.                              *)
(***************************************************************************)
C14_RaiseFillsProcessingError ==
    [][(OpPass /\ call'.how = "raised") =>
          /\ pc' = "process"
          /\ idx' = idx + 1 /\ op' = 1
          /\ PROCESSING_ERROR # LLM_ERROR
          /\ \A n \in ListNames :
                /\ Len(lists[n]) \in {idx, idx + 1}
                /\ lists'[n] = IF Len(lists[n]) = idx + 1 THEN lists[n]
                               ELSE Append(lists[n], PROCESSING_ERROR)]_vars

\* the fourth operation of the first record raised: its earlier results are
\* kept, the rest is "Processing error", and the second record has results
C14_Witness ==
    /\ pc = "done"
    /\ Len(df.rows) = 2
    /\ Mentions(Cells(result, "Control objective: Explanation")[1], 1)
    /\ Cells(result, "Is the control execution appropriate for the risk being addressed?")[1]
          = T("Yes")
    /\ Cells(result, "Is the control type adequate for the risk it addresses")[1]
          = PROCESSING_ERROR
    /\ Cells(result, "Overall Rating")[1] = PROCESSING_ERROR
    /\ Cells(result, "Overall Rating")[2] = T("Effective")

\* the requests of the call before its last one all failed with a signal
\* that is retried (rate limit or another transient error)
FailedThenSucceeded(c) ==
    /\ c.ret \in {"text", "client"}
    /\ \A k \in 1..(Len(c.classes) - 1) : c.classes[k] \in {"rate", "other"}

(***************************************************************************)
(* C15: when the first k < MAX_RETRIES requests of one retry loop fail     *)
(* with a transient signal and the next one succeeds, the loop returns     *)
(* that response after exactly k + 1 requests and k waits, and the waits   *)
(* are non-decreasing and none is above MAX_RETRY_DELAY.                   *)
(***************************************************************************)
C15_BackoffMonotoneUpToCap ==
    FailedThenSucceeded(call) =>
        /\ Last(call.classes) = "ok"
        /\ call.sent = Len(call.classes)
        /\ call.sent <= cfg.MAX_RETRIES
        /\ Len(call.waits) = call.sent - 1
        /\ \A j \in 1..(Len(call.waits) - 1) : call.waits[j] <= call.waits[j + 1]
        /\ \A j \in 1..Len(call.waits) : call.waits[j] <= cfg.MAX_RETRY_DELAY

\* the cell holds an error marker
HasMarker(cell) ==
    \E k \in 1..Len(cell) : <<cell[k]>> \in {LLM_ERROR, PROCESSING_ERROR}

\* the loop is done with record r (log holds the calls made for it)
RecordFinalized(r) ==
    /\ pc \in {"process", "save", "done"}
    /\ log # << >> /\ log[1].rec = r
    /\ idx = r + 1 /\ op = 1

\* the call used up its requests on errors that are retried
Exhausted(e) ==
    e.last \in {"rate", "other"} /\ e.sent = cfg.MAX_RETRIES

\* of the calls made for the record only the one of ask_system_dependency
\* failed, by using up its requests; every other got a well-formed response
DependencyOnlyFailed ==
    /\ \E k \in 1..Len(log) : log[k].op = 6
    /\ \A k \in 1..Len(log) :
          IF log[k].op = 6 THEN Exhausted(log[k])
          ELSE log[k].last = "ok" /\ log[k].nominal

(***************************************************************************)
(* C16: when for a record only the Dependency call fails, by using up its  *)
(* requests, and every other call gets a well-formed response, the row of  *)
(* the record has an error marker in the systems-dependency column and in  *)
(* no other output column; all nine operations ran and the Overall Rating  *)
(* holds the rating of its response.                                       *)
(***************************************************************************)
C16_DependencyFailureIsolated ==
    \A r \in 0..(Len(df.rows) - 1) :
        (RecordFinalized(r) /\ DependencyOnlyFailed) =>
            /\ Len(log) = NumOps
            /\ \A k \in 1..Len(log) : log[k].op = k /\ log[k].rec = r
            /\ lists["sysdep_ans"][r + 1] = LLM_ERROR
            /\ \A n \in ColumnLists \ {"sysdep_ans"} :
                  /\ lists[n][r + 1] # << >>
                  /\ ~HasMarker(lists[n][r + 1])
            /\ lists["overall_rating_ans"][r + 1] = T("Effective")

\* the second record's Dependency call was rate limited on each of its two
\* requests, and the record is done
C16_Witness ==
    /\ RecordFinalized(1)
    /\ DependencyOnlyFailed
    /\ cfg.MAX_RETRIES = 2
    /\ log[6].last = "rate"
    /\ lists["sysdep_ans"][2] = LLM_ERROR
    /\ lists["overall_rating_exp"][2] = T("synthesis")

\* every call made for the record succeeded on its first request with the
\* well-formed response
AllFirstTryNominal ==
    \A k \in 1..Len(log) :
        log[k].last = "ok" /\ log[k].sent = 1 /\ log[k].nominal

RECURSIVE SumSent(_)
\* the requests sent by the calls of the entries
SumSent(entries) ==
    IF entries = << >> THEN 0 ELSE Head(entries).sent + SumSent(Tail(entries))

(***************************************************************************)
(* C17: when every call made for a record succeeds on its first request    *)
(* with a well-formed response, exactly nine requests are made for the     *)
(* record (one per operation, in order), no output column of its row holds *)
(* an error marker, and the Overall Rating cell is the rating value of the *)
(* Overall Rating response (for every response that supplies one).         *)
(***************************************************************************)
C17_NominalRunNineCalls ==
    /\ \A r \in 0..(Len(df.rows) - 1) :
          (RecordFinalized(r) /\ AllFirstTryNominal) =>
              /\ Len(log) = 9
              /\ SumSent(log) = 9
              /\ \A k \in 1..Len(log) : log[k].op = k /\ log[k].rec = r
              /\ \A n \in ColumnLists :
                    lists[n][r + 1] # << >> /\ ~HasMarker(lists[n][r + 1])
              /\ lists["overall_rating_ans"][r + 1] = T("Effective")
    /\ (/\ OpCallEnded /\ call.op = 8 /\ call.how = "parsed"
        /\ HasKey(ParsedResponse.items, "rating")) =>
              lists["overall_rating_ans"][call.rec + 1] =
                  PyStr(Get(ParsedResponse, "rating", PyNone))

\* a finished run of two records with no request gone wrong
C17_Witness ==
    /\ pc = "done"
    /\ Len(df.rows) = 2
    /\ faults = 0
    /\ RecordFinalized(1)
    /\ AllFirstTryNominal
    /\ Cells(result, "Overall Rating") = <<T("Effective"), T("Effective")>>

(***************************************************************************)
(* C18: in a run of main the result table is written at most once, and     *)
(* only by save_results_to_excel after the loop went through every record  *)
(* and process_controls returned the whole table; nothing is written       *)
(* before.  When the run leaves process_controls for the exit (a user      *)
(* interrupt) nothing has been written, and after the exit nothing         *)
(* happens: no request, no record, no write.                               *)
(***************************************************************************)
C18_WrittenOnceAfterAllRecords ==
    [][/\ written' # written =>
             /\ pc = "save" /\ written = 0 /\ written' = 1
             /\ idx = Len(df.rows)
             /\ Labels(result) = KeptColumns \cup OutputColumnNames
             /\ \A k \in 1..Len(result) : Len(result[k].cells) = Len(df.rows)
       /\ pc' \in {"start", "connect", "load", "process", "save"} => written' = 0
       /\ (pc = "process" /\ pc' = "exit") => written' = 0
       /\ pc # "exit"]_vars

\* the entries are those of the first n operations of record r, in order
RanInOrder(entries, r, n) ==
    /\ Len(entries) = n
    /\ \A k \in 1..n : entries[k].op = k /\ entries[k].rec = r

(***************************************************************************)
(* C19: processing is strictly sequential.  A request belongs to the       *)
(* operation and record the loop is at; while a call is in progress the    *)
(* next request is a retry of that same call (never a second call); the    *)
(* operations of a record are called one after the other in order; and     *)
(* the first operation of a record is called only when all nine            *)
(* operations of the record before it have run.                            *)
(***************************************************************************)
C19_StrictlySequential ==
    [][OpPass =>
          /\ call'.rec = idx /\ call'.op = op
          /\ (call.active /\ call.site = "op") =>
                /\ call'.rec = call.rec /\ call'.op = call.op
                /\ call'.sent = call.sent + 1
          /\ ~(call.active /\ call.site = "op") => call'.sent = 1
          /\ op > 1 => RanInOrder(log, idx, op - 1)
          /\ (op = 1 /\ idx > 0) => RanInOrder(log, idx - 1, 9)]_vars

(***************************************************************************)
(* C20: the columns process_controls adds to the table are the same fixed  *)
(* set in every run, whatever the records hold, whatever the responses     *)
(* were and whichever operations failed: the columns of the table returned *)
(* are the input columns that come through and the columns named in the    *)
(* assignments, each of these once and with one cell per record.           *)
(***************************************************************************)
\* the labels of the columns table t has besides the input columns that
\* came through
AddedColumns(t) ==
    {c \in Labels(t) :
        Cardinality(Named(t, c)) > (IF c \in KeptColumns THEN 1 ELSE 0)}

C20_OutputColumnsFixed ==
    pc \in {"save", "done"} =>
        /\ AddedColumns(result) = OutputColumnNames
        /\ Labels(result) \ KeptColumns \subseteq OutputColumnNames
        /\ InputColumnNames \subseteq Labels(result)
        /\ Cardinality(OutputColumnNames) = Len(OUTPUT_COLS)
        /\ Len(result) = Cardinality(KeptColumns) + Len(OUTPUT_COLS)
        /\ \A c \in OutputColumnNames : \A k \in Named(result, c) :
              Len(result[k].cells) = Len(df.rows)

\* a finished run in which a column holds nothing but markers: the first
\* record raised before Overall Rating, the second one's call failed
C20_Witness ==
    /\ pc = "done"
    /\ Len(df.rows) = 2
    /\ Cells(result, "Overall Rating") = <<PROCESSING_ERROR, LLM_ERROR>>
    /\ "Overall Rating" \in Labels(result)

\* the fields of row i of the table returned, column by column
RowFields(i) == [k \in 1..Len(result) |-> result[k].cells[i]]

\* row i of the table returned has the field of input column c
HasInputField(i, c) ==
    \E k \in Named(result, c) : RowFields(i)[k] = df.rows[i][c]

(***************************************************************************)
(* C21 as stated: each result row consists of the original input fields    *)
(* plus exactly 14 named output columns.                                   *)
(***************************************************************************)
C21_FourteenOutputColumns ==
    pc \in {"save", "done"} =>
        \A i \in 1..Len(df.rows) :
            /\ \A c \in InputLabels : HasInputField(i, c)
            /\ Len(RowFields(i)) = Len(df.columns) + 14

(***************************************************************************)
(* C21 amended: each result row consists of exactly 16 named output        *)
(* columns (the documentation column, the suggestions and the 14 columns   *)
(* of the other eight operations) plus the original input fields, but for  *)
(* the fields of input columns named Present, Missing, Source or           *)
(* System/data dependencies: Explanation, which are deleted, and of input  *)
(* columns named like a column that is assigned (Present & Missing,        *)
(* Suggestions or one of the 14 analysis columns), which are overwritten.  *)
(***************************************************************************)
C21_SixteenOutputColumns ==
    pc \in {"save", "done"} =>
        /\ InputColumnNames \subseteq KeptColumns
        /\ \A i \in 1..Len(df.rows) :
              /\ \A c \in KeptColumns : HasInputField(i, c)
              /\ Len(RowFields(i)) = Cardinality(KeptColumns) + 16
              /\ \A c \in Labels(result) \cup InputLabels :
                    Cardinality(Named(result, c)) =
                        (IF c \in KeptColumns THEN 1 ELSE 0)
                        + (IF c \in OutputColumnNames THEN 1 ELSE 0)
              /\ \A c \in OutputColumnNames : \E k \in Named(result, c) :
                    RowFields(i)[k] = lists[ListOfColumn(c)][i]

\* a finished run on a file of one row that has a Source, a Present, a
\* Missing, a dependency explanation and a Comments column: the row has its
\* seven required fields and its comment, the sixteen results, and none of
\* the four other fields
C21_Witness ==
    /\ pc = "done"
    /\ Len(df.rows) = 1
    /\ {"Source", "Present", "Comments"} \subseteq InputLabels
    /\ Len(RowFields(1)) = 24
    /\ Cells(result, "Risk")[1] = df.rows[1]["Risk"]
    /\ Cells(result, "Comments")[1] = df.rows[1]["Comments"]
    /\ Labels(result) \cap DeletedColumns = {}
    /\ Cells(result, "Suggestions")[1] # << >>
    /\ Mentions(Cells(result, present_missing_col)[1], 1)

\* sequence a is an initial part of sequence b
IsPrefix(a, b) == Len(a) <= Len(b) /\ SubSeq(b, 1, Len(a)) = a

StartsWithMarker(t) == t # << >> /\ ~Head(t).q /\ Head(t).s \in {"json", "JSON", "Json"}

\* the text after its marker word, if it has one
Unmarked(t) == IF StartsWithMarker(t) THEN Strip(Tail(t)) ELSE t

\* the span from the first "{" to the last "}" of t, or t when it has none
Span(t) ==
    LET spans == {<<i, j>> \in (1..Len(t)) \X (1..Len(t)) :
                     i < j /\ IsTok(t[i], "{") /\ IsTok(t[j], "}")}
    IN IF spans = {} THEN t
       ELSE SubSeq(t, Min({x[1] : x \in spans}), Max({x[2] : x \in spans}))

\* the values json.loads can return for a text of the bounded pieces
RECURSIVE IsJsonValue(_)
IsJsonValue(v) ==
    CASE v.k \in {"str", "num", "null", "true", "false"} -> TRUE
      [] v.k = "obj" -> \A i \in 1..Len(v.items) : IsJsonValue(v.items[i][2])
      [] v.k = "list" -> \A i \in 1..Len(v.items) : IsJsonValue(v.items[i])
      [] OTHER -> FALSE

(***************************************************************************)
(* C23: for every response text, extract_json_from_response returns what   *)
(* json.loads makes of the span from the first "{" to the last "}" of the  *)
(* text without its leading marker word (of the whole rest when it has no  *)
(* such span), and None when that is not JSON; it always returns.          *)
(***************************************************************************)
C23_ParserContract ==
    parser.done =>
        LET parsed == json_loads(Span(Unmarked(parser.text))) IN
        /\ parsed.ok => parser.data = parsed.val /\ IsJsonValue(parser.data)
        /\ ~parsed.ok => parser.data = PyNone

\* a text with the marker word and then an object with a member: the object is
\* returned
C23_Witness ==
    /\ parser.done
    /\ StartsWithMarker(parser.text)
    /\ Len(Span(Unmarked(parser.text))) < Len(parser.text)
    /\ parser.data.k = "obj"
    /\ parser.data.items # << >>

\* the evidence cell of the record of the ended call
EvidenceCell == lists["potential_evidence_list"][call.rec + 1]

(***************************************************************************)
(* C24: Expected Evidence does not hand its response to the parser.  When  *)
(* its call returns a text, JSON or not, the evidence cell is that text,   *)
(* trimmed and otherwise unchanged (a well-formed response sent with a     *)
(* leading newline is stored without it); the cell is "LLM error" only     *)
(* when the call returned no text.                                         *)
(***************************************************************************)
C24_EvidenceStoredVerbatim ==
    (OpCallEnded /\ call.op = 9) =>
        /\ call.how # "raised"
        /\ ~Falsy(call.resp) => EvidenceCell = call.resp.text
        /\ Last(log).nominal => EvidenceCell = Nominal(call.prompt)
        /\ EvidenceCell = LLM_ERROR => Falsy(call.resp)

\* the Expected Evidence call returned a JSON object and the cell holds its
\* text, not a value taken from it
C24_Witness ==
    /\ OpCallEnded
    /\ call.op = 9
    /\ ~Falsy(call.resp)
    /\ extract_json_from_response(call.resp.text).k = "obj"
    /\ EvidenceCell = call.resp.text
    /\ IsTok(Head(EvidenceCell), "{")

\* process_controls has returned a table with one cell per record in every
\* output column
AllFinalized ==
    /\ pc = "save"
    /\ \A n \in ColumnLists : Len(lists[n]) = Len(df.rows)
    /\ OutputColumnNames \subseteq Labels(result)
    /\ \A k \in 1..Len(result) : Len(result[k].cells) = Len(df.rows)

(***************************************************************************)
(* C25: for every input of N records and every behaviour of the service,   *)
(* a service that fails every request included, process_controls, once     *)
(* started, returns with every record finalized, and at no time has it     *)
(* sent more than 9 * N * MAX_RETRIES requests.                            *)
(***************************************************************************)
C25_TerminatesWithinRequestBudget ==
    /\ [](stub.requests <= NumOps * Len(df.rows) * cfg.MAX_RETRIES)
    /\ (pc = "process") ~> AllFinalized

\* the service failed every request with an error that is retried:
\* process_controls returned after exactly 9 * N * MAX_RETRIES requests
C25_Witness ==
    /\ AllFinalized
    /\ stub.mode = "failing"
    /\ Len(df.rows) = MaxRecords
    /\ cfg.MAX_RETRIES = MaxRunRetries
    /\ stub.requests = NumOps * Len(df.rows) * cfg.MAX_RETRIES

\* the response resp to operation o is JSON the operation cannot read: a
\* non-empty value that is no object, or for Completeness an object with a
\* present, missing or suggestions value that is no object
Unreadable(o, resp) ==
    /\ ~Falsy(resp)
    /\ o # 9
    /\ LET data == extract_json_from_response(resp.text) IN
       /\ Truthy(data)
       /\ \/ data.k # "obj"
          \/ /\ o = 1
             /\ data.k = "obj"
             /\ \E key \in {"present", "missing", "suggestions"} :
                   HasKey(data.items, key) /\ Get(data, key, PyNone).k # "obj"

(***************************************************************************)
(* C26: when the call of an operation that expects JSON returns a text that *)
(* parses to a non-empty value that is no object (or, for Completeness, to *)
(* an object whose present, missing or suggestions value is no object),    *)
(* the operation raises: the lists of that operation and of every later    *)
(* operation get "Processing error" for the record, the lists of the       *)
(* earlier operations keep the value they have for it, no later operation  *)
(* of the record is called, and the loop goes on with the next record.     *)
(***************************************************************************)
C26_NonObjectJsonRaises ==
    [][(OpPass /\ ~call'.active /\ Unreadable(op, call'.resp)) =>
          /\ call'.how = "raised"
          /\ \A o \in 1..NumOps : \A n \in SeqRange(OpLists(o)) :
                IF o < op
                THEN /\ Len(lists[n]) = idx + 1
                     /\ lists[n][idx + 1] # PROCESSING_ERROR
                     /\ lists'[n] = lists[n]
                ELSE /\ Len(lists[n]) = idx
                     /\ lists'[n] = Append(lists[n], PROCESSING_ERROR)
          /\ RanInOrder(log', idx, op)
          /\ idx' = idx + 1 /\ op' = 1]_vars

\* the response to the fourth operation of a record was a JSON list: the
\* results of the third are kept, the fourth and the last hold "Processing
\* error", and the loop is at the next record
C26_Witness ==
    /\ OpCallEnded
    /\ call.op = 4
    /\ call.how = "raised"
    /\ ParsedResponse.k = "list"
    /\ lists["exec_ans"][call.rec + 1] = T("Yes")
    /\ lists["type_ans"][call.rec + 1] = PROCESSING_ERROR
    /\ lists["potential_evidence_list"][call.rec + 1] = PROCESSING_ERROR
    /\ idx = call.rec + 1
    /\ op = 1

\* the response resp to operation o says nothing: it is empty once trimmed, or
\* the operation parses it to an empty object
SaysNothing(o, resp) ==
    \/ resp.text = << >>
    \/ o # 9 /\ extract_json_from_response(resp.text) = JObj(<< >>)

(***************************************************************************)
(* C27: when a request of an operation's call is answered (the service     *)
(* does not fail) with a text that is empty or whitespace only, or that    *)
(* the operation parses to an empty JSON object, the call ends with that   *)
(* request: there is no wait and no retry (an answered request always     *)
(* ends its call), the loop goes on with the next operation, and the       *)
(* values the operation returns are those it returns when its call         *)
(* failed, with the marker "LLM error" among them.                         *)
(***************************************************************************)
C27_EmptyResponseNotRetried ==
    [][(OpPass /\ Last(call'.classes) = "ok") =>
          /\ ~call'.active
          /\ ~call'.resp.none
          /\ SaysNothing(op, call'.resp) =>
                /\ call'.sent = Len(call'.classes)
                /\ Len(call'.waits) = call'.sent - 1
                /\ call'.how \in {"no_response", "no_data"}
                /\ <<idx', op'>> = NextPos(idx, op)
                /\ lists' = AppendResults(lists, op, OpResult(op, NoText).out)
                /\ \E n \in SeqRange(OpLists(op)) : Last(lists'[n]) = LLM_ERROR]_vars

\* the first request of the Objective call was answered with an empty object
\* although a second request was allowed: the call ended and both fields of
\* the operation hold "LLM error"
C27_Witness ==
    /\ OpCallEnded
    /\ call.op = 2
    /\ cfg.MAX_RETRIES = 2
    /\ call.classes = <<"ok">>
    /\ call.sent = 1
    /\ ~Falsy(call.resp)
    /\ ParsedResponse = JObj(<< >>)
    /\ lists["objective_ans"][call.rec + 1] = LLM_ERROR
    /\ lists["objective_exp"][call.rec + 1] = LLM_ERROR

\* this step is a pass of make_llm_call_with_retry called on its own
TestPass == PassStep /\ call'.site = "test"

\* the sleeps of the call in work before this step
WaitsBefore == IF call.active THEN call.waits ELSE << >>

\* this step slept
Waited == Len(call'.waits) = Len(WaitsBefore) + 1

\* the loop has a pass left after this step
PassesLeft == call'.sent < cfg.MAX_RETRIES

\* the message carries one of the markers
Carries(msg, markers) == msg \cap markers # {}

(***************************************************************************)
(* C28: the error of a failed request is classified by the markers in its  *)
(* message in a fixed order.  A message with a rate-limit marker (429, too *)
(* many requests) is handled as rate-limited whatever else it carries: the *)
(* loop sleeps and, while it has a pass left, goes on.  A message without  *)
(* one and with an authentication marker (401, unauthorized), or else a    *)
(* not-found marker (404, not found), ends the call at once: no sleep, no  *)
(* retry, None returned.  Any other failure is transient: the loop sleeps  *)
(* and goes on exactly when it has a pass left.                            *)
(***************************************************************************)
C28_ClassificationPrecedence ==
    [][(TestPass /\ stub'.outcome.kind = "error") =>
          LET msg == stub'.outcome.msg
              rate == Carries(msg, {"429", "too many requests"})
              auth == Carries(msg, {"401", "unauthorized"})
              notfound == Carries(msg, {"404", "not found"})
              class == Last(call'.classes)
          IN /\ rate => /\ class = "rate"
                        /\ Waited
                        /\ call'.active
                        /\ PassesLeft = ~LoopEnding(call')
             /\ (~rate /\ auth) => class = "auth"
             /\ (~rate /\ ~auth /\ notfound) => class = "notfound"
             /\ (~rate /\ (auth \/ notfound)) =>
                   /\ ~call'.active
                   /\ call'.ret = "None"
                   /\ ~Waited
             /\ (~rate /\ ~auth /\ ~notfound) =>
                   /\ class = "other"
                   /\ call'.active = PassesLeft
                   /\ ~LoopEnding(call')
                   /\ Waited = PassesLeft]_vars

\* a request failed with a message that carries both 429 and 401 and the
\* loop goes on; the request before it failed with a transient error
C28_Witness ==
    /\ call.site = "test"
    /\ call.active
    /\ call.classes = <<"other", "rate">>
    /\ stub.outcome.kind = "error"
    /\ stub.outcome.msg = {"429", "401"}
    /\ Len(call.waits) = 2

\* every request of the call failed with the given class
AllOfClass(c, class) ==
    c.classes # << >> /\ \A k \in 1..Len(c.classes) : c.classes[k] = class

(***************************************************************************)
(* C29: a pass of make_llm_call_with_retry that sleeps is followed by      *)
(* another pass, except the last pass allowed when its request was rate    *)
(* limited: it sleeps and then the call returns None, with no request and  *)
(* no sleep in between.  A transient failure of the last pass allowed      *)
(* returns without a sleep.  So a call whose requests were all rate        *)
(* limited has slept MAX_RETRIES times when it returns, and one whose      *)
(* requests all failed transiently MAX_RETRIES - 1 times.                  *)
(***************************************************************************)
C29_WaitThenAttempt ==
    [][/\ TestPass =>
             LET class == Last(call'.classes) IN
             /\ (Waited /\ ~(class = "rate" /\ ~PassesLeft)) =>
                   call'.active /\ ~LoopEnding(call')
             /\ (class = "rate" /\ ~PassesLeft) => Waited /\ LoopEnding(call')
             /\ (class = "other" /\ ~PassesLeft) =>
                   ~Waited /\ ~call'.active /\ call'.ret = "None"
       /\ (LoopStep /\ call'.site = "test" /\ LoopEnding(call)) =>
             /\ Last(call.classes) = "rate"
             /\ ~call'.active /\ call'.ret = "None"
             /\ call'.sent = call.sent
             /\ call'.classes = call.classes
             /\ call'.waits = call.waits
       /\ (LoopStep /\ call'.site = "test" /\ ~call'.active) =>
             /\ AllOfClass(call', "rate") =>
                   /\ call'.sent = cfg.MAX_RETRIES
                   /\ Len(call'.waits) = cfg.MAX_RETRIES
             /\ AllOfClass(call', "other") =>
                   /\ call'.sent = cfg.MAX_RETRIES
                   /\ Len(call'.waits) = cfg.MAX_RETRIES - 1]_vars

\* a call of three passes, all rate limited, has returned None after three
\* sleeps
C29_Witness ==
    /\ call.site = "test"
    /\ ~call.active
    /\ cfg.MAX_RETRIES = 3
    /\ call.classes = <<"rate", "rate", "rate">>
    /\ Len(call.waits) = 3
    /\ call.ret = "None"

\* the results of a record that the Overall Rating prompt does not embed: the
\* Adaptability (segregation of duties) result, the explanations and the
\* Completeness suggestions
NotEmbedded ==
    {"adaptability_ans", "adaptability_exp", "suggestion_list", "objective_exp",
     "exec_exp", "type_exp", "freq_exp", "sysdep_exp"}

\* other values such a result can have in another run
OtherResults == {<< >>, T("Yes"), T("No"), T("None found"), LLM_ERROR}

\* the lists of a run that differs from this one in the result n of record
\* i + 1, which is v there
Differing(ls, n, i, v) == [ls EXCEPT ![n] = [@ EXCEPT ![i + 1] = v]]

(***************************************************************************)
(* C30: the Overall Rating prompt of a record is determined by the          *)
(* Objective, Execution, Type, Frequency and Dependency answers and the    *)
(* present and missing texts of the record alone.  Every request of the    *)
(* Overall Rating call carries the prompt built from those seven values,   *)
(* and a run in which the record's Adaptability result, an explanation or  *)
(* the suggestions had any other value would send the same prompt.         *)
(***************************************************************************)
C30_RatingPromptIndependent ==
    [][(OpPass /\ op = 8) =>
          /\ \A n \in NotEmbedded : Len(lists[n]) = idx + 1
          /\ \A n \in NotEmbedded : \A v \in OtherResults :
                Prompt(8, df.rows[idx + 1], Differing(lists, n, idx, v), idx)
                    = call'.prompt
          /\ \A v \in OtherResults :
                Prompt(8, df.rows[idx + 1],
                       [n \in ListNames |->
                           IF n \in NotEmbedded
                           THEN [lists[n] EXCEPT ![idx + 1] = v] ELSE lists[n]],
                       idx) = call'.prompt
          /\ call.active => call'.prompt = call.prompt]_vars

\* the Adaptability call of the record failed and its explanation of the
\* Objective is the one the response gave; the Overall Rating request of the
\* record carries the five answers and nothing of either
C30_Witness ==
    /\ pc = "process"
    /\ call.site = "op" /\ call.op = 8
    /\ call.classes # << >>
    /\ lists["adaptability_ans"][call.rec + 1] = LLM_ERROR
    /\ Mentions(lists["objective_exp"][call.rec + 1], call.rec + 1)
    /\ lists["suggestion_list"][call.rec + 1] # << >>
    /\ call.prompt.embeds[1] = T("Yes")
    /\ \A j \in 1..Len(call.prompt.embeds) : call.prompt.embeds[j] # LLM_ERROR

=============================================================================
